---- MODULE Spec2Model ----
(***************************************************************************)
(* Model of sqlproc's schema migrations.                                   *)
(*                                                                         *)
(* Spec      SchemaMigrator.Migrate and applyMigration, statement by       *)
(*           statement, against a transactional database that holds the    *)
(*           ledger relation sqlproc_schema_migrations.  Every statement   *)
(*           may fail.  Calls follow one another (conc = FALSE).           *)
(* SpecConc  The same with two invocations that may overlap, one call      *)
(*           each.                                                         *)
(* SpecFixed The same with one list for every call.                        *)
(* SpecLoad  LoadSchemaMigrations and parseSchemaMigration, applied to     *)
(*           every list of at most MaxFiles paths of FileSystem.           *)
(* SpecParse, SpecResolve, SpecTypes  Parser.ParseFile, ResolveFiles and   *)
(*           the type mapping, applied to the inputs of the model.         *)
(* SpecRun   Run, stage by stage, with every option of the model.          *)
(***************************************************************************)
EXTENDS Integers, Sequences, FiniteSets, TLC

(***************************************************************************)
(* Bounds of the model.                                                    *)
(***************************************************************************)
MaxVersion == 3
MaxRuns == 2
\* The highest version in the lists of two overlapping invocations.
MaxConcVersion == 2

Procs == {"A", "B"}

Names == {"a", "b"}

NoFile == <<>>

(***************************************************************************)
(* SchemaMigration{Version, Name, File, SQL}.  The SQL text is opaque; the *)
(* body of a migration is identified by its File.                          *)
(***************************************************************************)
FileOf(v, n) == <<v, n>>

SchemaMigration(v, n) == [Version |-> v, Name |-> n, File |-> FileOf(v, n)]

Versions == 1..MaxVersion

RECURSIVE AscendingLists(_)
\* The lists LoadSchemaMigrations can return with versions >= lo:
\* strictly ascending by version.
AscendingLists(lo) ==
    IF lo > MaxVersion THEN {<<>>}
    ELSE AscendingLists(lo + 1) \cup
         { <<SchemaMigration(lo, n)>> \o rest :
              n \in (IF lo = 1 THEN Names ELSE {"a"}), rest \in AscendingLists(lo + 1) }

MigrationLists == AscendingLists(1)

VARIABLES
    conc,         \* TRUE when several Migrate invocations may overlap
    tableExists,  \* the ledger relation exists in the database
    ledger,       \* committed rows (version, name) of the ledger relation
    bodyLog,      \* committed migration bodies, in commit order (by version)
    runs,         \* number of Migrate calls started
    lastRun,      \* the Migrate call that returned last: its list and result
    pc,           \* per invocation: position inside Migrate
    migs,         \* per invocation: the migrations argument
    applied,      \* per invocation: the map returned by appliedVersions
    idx,          \* per invocation: index of the range loop
    tx,           \* per invocation: the open *sql.Tx, its pending writes
    ret,          \* per invocation: the value Migrate returned
    trace,        \* per invocation: statements issued by this call, in order
    startLedger,  \* per invocation: the ledger when the call started
    txLedger,     \* per invocation: the ledger when the last BeginTx was issued
    prevRun,      \* per invocation: lastRun when the call started
    files,        \* the files argument of LoadSchemaMigrations
    loadPc,       \* position of the LoadSchemaMigrations call
    loadOut,      \* what LoadSchemaMigrations returned: (migrations, error)
    procFiles,    \* the procedure files on disk: path -> lines
    unit,         \* the unit written to procFiles and what it declares
    parseArg,     \* the path argument of ParseFile
    parsePc,      \* position of the ParseFile call
    parseOut,     \* what ParseFile returned: (procedure, error)
    inputs,       \* the inputs argument of ResolveFiles
    resolvePc,    \* position of the ResolveFiles call
    resolveOut,   \* what ResolveFiles returned: (files, error)
    opts,         \* the PipelineOptions of Run
    runPc,        \* position of the Run call
    sqlFiles,     \* Run: the files resolved from the SQL inputs
    procs,        \* Run: the procedures parsed from the SQL inputs
    opened,       \* Run: the files ParseFile has opened, in order
    migFiles,     \* Run: the files resolved from the migration inputs
    schemaMigrations,  \* Run: the migrations loaded from the migration inputs
    conn,         \* Run: the database handle, and whether it is open
    procIdx,      \* Migrator.Migrate: index of the range loop
    procLog,      \* procedure bodies executed on the database, in order
    procRet,      \* what Migrator.Migrate returned
    generatedFiles,    \* Run: the generated files to report
    disk,         \* the files written below the output directory
    introspected, \* loadSchemaTables has queried the catalog
    runOut,       \* what Run returned: (result, error)
    column,       \* the TableColumn argument of the type mapping
    typePc,       \* position of the type mapping call
    typeOut       \* what sqlTypeToGo and goTypeForColumn returned

dbVars == <<tableExists, ledger, bodyLog>>
callVars == <<pc, migs, applied, idx, tx, ret, trace, startLedger, txLedger, prevRun>>
migVars == <<conc, dbVars, runs, lastRun, callVars>>
loadVars == <<files, loadPc, loadOut>>
parseVars == <<procFiles, unit, parseArg, parsePc, parseOut>>
resolveVars == <<inputs, resolvePc, resolveOut>>
runVars == <<opts, runPc, sqlFiles, procs, opened, migFiles, schemaMigrations, conn, procIdx, procLog, procRet,
             generatedFiles, disk, introspected, runOut>>
typeVars == <<column, typePc, typeOut>>
vars == <<migVars, loadVars, parseVars, resolveVars, runVars, typeVars>>

\* What the steps of Migrate leave alone.
nonMigVars == <<loadVars, parseVars, resolveVars, runVars, typeVars>>

NoTx == [open |-> FALSE, body |-> <<>>, rows |-> {}]

NoRet == [kind |-> "none", step |-> "-", file |-> NoFile]
Nil == [kind |-> "nil", step |-> "-", file |-> NoFile]
\* An error of the database driver, returned as it is.
DriverErr(step) == [kind |-> "error", step |-> step, file |-> NoFile]
\* fmt.Errorf("apply migration %s: %w", migration.File, err)
ApplyErr(step, file) == [kind |-> "error", step |-> step, file |-> file]

NoRun == [migs |-> <<>>, ret |-> NoRet]

LedgerVersions(rows) == { r.version : r \in rows }

Cur(p) == migs[p][idx[p]]

InitMigrate ==
    /\ tableExists = FALSE
    /\ ledger = {}
    /\ bodyLog = <<>>
    /\ runs = 0
    /\ lastRun = NoRun
    /\ pc = [p \in Procs |-> "idle"]
    /\ migs = [p \in Procs |-> <<>>]
    /\ applied = [p \in Procs |-> {}]
    /\ idx = [p \in Procs |-> 0]
    /\ tx = [p \in Procs |-> NoTx]
    /\ ret = [p \in Procs |-> NoRet]
    /\ trace = [p \in Procs |-> <<>>]
    /\ startLedger = [p \in Procs |-> {}]
    /\ txLedger = [p \in Procs |-> {}]
    /\ prevRun = [p \in Procs |-> NoRun]

\* Migrate returns r: the call is over.
Return(p, r) ==
    /\ pc' = [pc EXCEPT ![p] = "done"]
    /\ ret' = [ret EXCEPT ![p] = r]
    /\ lastRun' = [migs |-> migs[p], ret |-> r]

Goto(p, l) ==
    /\ pc' = [pc EXCEPT ![p] = l]
    /\ UNCHANGED <<ret, lastRun>>

Log(p, ev) == trace' = [trace EXCEPT ![p] = Append(@, ev)]

\* Entry of Migrate(ctx, ms): len(migrations) == 0 returns nil at once.
EnterMigrate(p, ms) ==
    /\ runs' = runs + 1
    /\ migs' = [migs EXCEPT ![p] = ms]
    /\ IF Len(ms) = 0
         THEN /\ pc' = [pc EXCEPT ![p] = "done"]
              /\ ret' = [ret EXCEPT ![p] = Nil]
              /\ lastRun' = [migs |-> ms, ret |-> Nil]
         ELSE /\ pc' = [pc EXCEPT ![p] = "ensureTable"]
              /\ ret' = [ret EXCEPT ![p] = NoRet]
              /\ UNCHANGED lastRun
    /\ applied' = [applied EXCEPT ![p] = {}]
    /\ idx' = [idx EXCEPT ![p] = 0]
    /\ tx' = [tx EXCEPT ![p] = NoTx]
    /\ trace' = [trace EXCEPT ![p] = <<>>]
    /\ startLedger' = [startLedger EXCEPT ![p] = ledger]
    /\ txLedger' = [txLedger EXCEPT ![p] = ledger]
    /\ prevRun' = [prevRun EXCEPT ![p] = lastRun]
    /\ UNCHANGED <<conc, dbVars>>

\* A call of Migrate with any list the loader can return.
MigrateCall(p) ==
    /\ pc[p] \in {"idle", "done"}
    /\ conc \/ (p = "A" /\ \A q \in Procs : pc[q] \in {"idle", "done"})
    /\ runs < MaxRuns
    /\ \E ms \in MigrationLists : EnterMigrate(p, ms)
    /\ UNCHANGED nonMigVars

\* CREATE TABLE IF NOT EXISTS: creates the relation, never touches its rows.
ensureTable(p) ==
    /\ pc[p] = "ensureTable"
    /\ \/ /\ tableExists' = TRUE
          /\ Goto(p, "appliedVersions")
       \/ /\ UNCHANGED tableExists
          /\ Return(p, DriverErr("ensureTable"))
    /\ UNCHANGED <<conc, ledger, bodyLog, runs, migs, applied, idx, tx, trace,
                   startLedger, txLedger, prevRun>>
    /\ UNCHANGED nonMigVars

\* appliedVersions that forgets the rows it scanned.
appliedVersionsEmpty(p) ==
    /\ pc[p] = "appliedVersions"
    /\ \/ /\ tableExists
          /\ applied' = [applied EXCEPT ![p] = {}]
          /\ idx' = [idx EXCEPT ![p] = 1]
          /\ Goto(p, "loop")
       \/ /\ UNCHANGED <<applied, idx>>
          /\ Return(p, DriverErr("appliedVersions"))
    /\ UNCHANGED <<conc, dbVars, runs, migs, tx, trace, startLedger, txLedger, prevRun>>
    /\ UNCHANGED nonMigVars

\* SELECT version FROM the ledger, collected into a set.
appliedVersions(p) ==
    /\ pc[p] = "appliedVersions"
    /\ \/ /\ tableExists
          /\ applied' = [applied EXCEPT ![p] = LedgerVersions(ledger)]
          /\ idx' = [idx EXCEPT ![p] = 1]
          /\ Goto(p, "loop")
       \/ /\ UNCHANGED <<applied, idx>>
          /\ Return(p, DriverErr("appliedVersions"))
    /\ UNCHANGED <<conc, dbVars, runs, migs, tx, trace, startLedger, txLedger, prevRun>>
    /\ UNCHANGED nonMigVars

Max(S) == CHOOSE x \in S : \A y \in S : y <= x

\* A range loop that skips every version up to the highest applied one.
MigrateLoopHighWater(p) ==
    /\ pc[p] = "loop"
    /\ IF idx[p] > Len(migs[p])
         THEN /\ Return(p, Nil)
              /\ UNCHANGED idx
         ELSE IF applied[p] # {} /\ Cur(p).Version <= Max(applied[p])
           THEN /\ idx' = [idx EXCEPT ![p] = @ + 1]
                /\ Goto(p, "loop")
           ELSE /\ UNCHANGED idx
                /\ Goto(p, "beginTx")
    /\ UNCHANGED <<conc, dbVars, runs, migs, applied, tx, trace, startLedger,
                   txLedger, prevRun>>
    /\ UNCHANGED nonMigVars

\* A range loop that refuses a version below the highest applied one.
MigrateLoopRejectLower(p) ==
    /\ pc[p] = "loop"
    /\ IF idx[p] > Len(migs[p])
         THEN /\ Return(p, Nil)
              /\ UNCHANGED idx
         ELSE IF Cur(p).Version \in applied[p]
           THEN /\ idx' = [idx EXCEPT ![p] = @ + 1]
                /\ Goto(p, "loop")
         ELSE IF applied[p] # {} /\ Cur(p).Version < Max(applied[p])
           THEN /\ UNCHANGED idx
                /\ Return(p, DriverErr("out of order"))
           ELSE /\ UNCHANGED idx
                /\ Goto(p, "beginTx")
    /\ UNCHANGED <<conc, dbVars, runs, migs, applied, tx, trace, startLedger,
                   txLedger, prevRun>>
    /\ UNCHANGED nonMigVars

\* The range loop of Migrate: skip an applied version, apply the others,
\* return nil after the last one.
MigrateLoop(p) ==
    /\ pc[p] = "loop"
    /\ IF idx[p] > Len(migs[p])
         THEN /\ Return(p, Nil)
              /\ UNCHANGED idx
         ELSE IF Cur(p).Version \in applied[p]
           THEN /\ idx' = [idx EXCEPT ![p] = @ + 1]
                /\ Goto(p, "loop")
           ELSE /\ UNCHANGED idx
                /\ Goto(p, "beginTx")
    /\ UNCHANGED <<conc, dbVars, runs, migs, applied, tx, trace, startLedger,
                   txLedger, prevRun>>
    /\ UNCHANGED nonMigVars

\* applyMigration: m.db.BeginTx.
BeginTx(p) ==
    /\ pc[p] = "beginTx"
    /\ \/ /\ tx' = [tx EXCEPT ![p] = [open |-> TRUE, body |-> <<>>, rows |-> {}]]
          /\ Log(p, <<"begin", Cur(p).Version>>)
          /\ Goto(p, "execBody")
       \/ /\ UNCHANGED tx
          /\ Log(p, <<"fail", "begin", Cur(p).Version>>)
          /\ Return(p, DriverErr("begin"))
    /\ txLedger' = [txLedger EXCEPT ![p] = ledger]
    /\ UNCHANGED <<conc, dbVars, runs, migs, applied, idx, startLedger, prevRun>>
    /\ UNCHANGED nonMigVars

\* A body failure that returns without Rollback: the transaction stays open.
ExecBodyNoRollback(p) ==
    /\ pc[p] = "execBody"
    /\ \/ /\ tx' = [tx EXCEPT ![p].body = Append(@, Cur(p).Version)]
          /\ Log(p, <<"exec", Cur(p).Version>>)
          /\ Goto(p, "insertLedger")
       \/ /\ UNCHANGED tx
          /\ Log(p, <<"fail", "exec", Cur(p).Version>>)
          /\ Return(p, ApplyErr("exec", Cur(p).File))
    /\ UNCHANGED <<conc, dbVars, runs, migs, applied, idx, startLedger, txLedger, prevRun>>
    /\ UNCHANGED nonMigVars

\* A body failure after which the range loop goes on to the next migration.
ExecBodyContinue(p) ==
    /\ pc[p] = "execBody"
    /\ \/ /\ tx' = [tx EXCEPT ![p].body = Append(@, Cur(p).Version)]
          /\ Log(p, <<"exec", Cur(p).Version>>)
          /\ UNCHANGED idx
          /\ Goto(p, "insertLedger")
       \/ /\ tx' = [tx EXCEPT ![p] = NoTx]
          /\ trace' = [trace EXCEPT ![p] =
                @ \o << <<"fail", "exec", Cur(p).Version>>,
                        <<"rollback", Cur(p).Version>> >>]
          /\ idx' = [idx EXCEPT ![p] = @ + 1]
          /\ Goto(p, "loop")
    /\ UNCHANGED <<conc, dbVars, runs, migs, applied, startLedger, txLedger, prevRun>>
    /\ UNCHANGED nonMigVars

\* The body sent to m.db instead of tx: it commits on its own.
ExecBodyAutocommit(p) ==
    /\ pc[p] = "execBody"
    /\ \/ /\ bodyLog' = Append(bodyLog, Cur(p).Version)
          /\ UNCHANGED tx
          /\ Log(p, <<"exec", Cur(p).Version>>)
          /\ Goto(p, "insertLedger")
       \/ /\ tx' = [tx EXCEPT ![p] = NoTx]
          /\ UNCHANGED bodyLog
          /\ trace' = [trace EXCEPT ![p] =
                @ \o << <<"fail", "exec", Cur(p).Version>>,
                        <<"rollback", Cur(p).Version>> >>]
          /\ Return(p, ApplyErr("exec", Cur(p).File))
    /\ UNCHANGED <<conc, tableExists, ledger, runs, migs, applied, idx, startLedger, txLedger,
                   prevRun>>
    /\ UNCHANGED nonMigVars

\* applyMigration: tx.ExecContext(migration.SQL); on error Rollback and
\* return the error wrapped with migration.File.
ExecBody(p) ==
    /\ pc[p] = "execBody"
    /\ \/ /\ tx' = [tx EXCEPT ![p].body = Append(@, Cur(p).Version)]
          /\ Log(p, <<"exec", Cur(p).Version>>)
          /\ Goto(p, "insertLedger")
       \/ /\ tx' = [tx EXCEPT ![p] = NoTx]
          /\ trace' = [trace EXCEPT ![p] =
                @ \o << <<"fail", "exec", Cur(p).Version>>,
                        <<"rollback", Cur(p).Version>> >>]
          /\ Return(p, ApplyErr("exec", Cur(p).File))
    /\ UNCHANGED <<conc, dbVars, runs, migs, applied, idx, startLedger, txLedger, prevRun>>
    /\ UNCHANGED nonMigVars

\* version is the PRIMARY KEY of the ledger relation.
KeyConflict(p, v) ==
    v \in LedgerVersions(ledger) \cup LedgerVersions(tx[p].rows)

\* Another open transaction has inserted version v and not yet ended: an
\* INSERT of the same key waits for it.
KeyHeld(p, v) ==
    \E q \in Procs \ {p} : tx[q].open /\ v \in LedgerVersions(tx[q].rows)

\* The ledger INSERT issued on m.db instead of tx: it commits on its own.
InsertLedgerAutocommit(p) ==
    /\ pc[p] = "insertLedger"
    /\ \/ /\ ~KeyConflict(p, Cur(p).Version)
          /\ ledger' = ledger \cup {[version |-> Cur(p).Version, name |-> Cur(p).Name]}
          /\ UNCHANGED tx
          /\ Log(p, <<"insert", Cur(p).Version, Cur(p).Name>>)
          /\ Goto(p, "commit")
       \/ /\ tx' = [tx EXCEPT ![p] = NoTx]
          /\ UNCHANGED ledger
          /\ trace' = [trace EXCEPT ![p] =
                @ \o << <<"fail", "insert", Cur(p).Version>>,
                        <<"rollback", Cur(p).Version>> >>]
          /\ Return(p, DriverErr("insert"))
    /\ UNCHANGED <<conc, tableExists, bodyLog, runs, migs, applied, idx, startLedger,
                   txLedger, prevRun>>
    /\ UNCHANGED nonMigVars

\* applyMigration without the ledger INSERT.
InsertLedgerSkipped(p) ==
    /\ pc[p] = "insertLedger"
    /\ Goto(p, "commit")
    /\ UNCHANGED <<conc, dbVars, runs, migs, applied, idx, tx, trace, startLedger,
                   txLedger, prevRun>>
    /\ UNCHANGED nonMigVars

\* A failed ledger INSERT that returns without Rollback.
InsertLedgerNoRollback(p) ==
    /\ pc[p] = "insertLedger"
    /\ \/ /\ ~KeyConflict(p, Cur(p).Version)
          /\ tx' = [tx EXCEPT ![p].rows =
                       @ \cup {[version |-> Cur(p).Version, name |-> Cur(p).Name]}]
          /\ Log(p, <<"insert", Cur(p).Version, Cur(p).Name>>)
          /\ Goto(p, "commit")
       \/ /\ UNCHANGED tx
          /\ Log(p, <<"fail", "insert", Cur(p).Version>>)
          /\ Return(p, DriverErr("insert"))
    /\ UNCHANGED <<conc, dbVars, runs, migs, applied, idx, startLedger, txLedger, prevRun>>
    /\ UNCHANGED nonMigVars

\* applyMigration: INSERT INTO ledger (version, name) inside the
\* transaction; on error Rollback and return the error as it is.  The
\* INSERT of a version that another open transaction has inserted waits for
\* that transaction to end, then fails if it committed.
InsertLedger(p) ==
    /\ pc[p] = "insertLedger"
    /\ \/ /\ ~KeyConflict(p, Cur(p).Version)
          /\ ~KeyHeld(p, Cur(p).Version)
          /\ tx' = [tx EXCEPT ![p].rows =
                       @ \cup {[version |-> Cur(p).Version, name |-> Cur(p).Name]}]
          /\ Log(p, <<"insert", Cur(p).Version, Cur(p).Name>>)
          /\ Goto(p, "commit")
       \/ /\ tx' = [tx EXCEPT ![p] = NoTx]
          /\ trace' = [trace EXCEPT ![p] =
                @ \o << <<"fail", "insert", Cur(p).Version>>,
                        <<"rollback", Cur(p).Version>> >>]
          /\ Return(p, DriverErr("insert"))
    /\ UNCHANGED <<conc, dbVars, runs, migs, applied, idx, startLedger, txLedger, prevRun>>
    /\ UNCHANGED nonMigVars

\* A failed Commit after which the range loop goes on to the next migration.
CommitContinue(p) ==
    /\ pc[p] = "commit"
    /\ \/ /\ ledger' = ledger \cup tx[p].rows
          /\ bodyLog' = bodyLog \o tx[p].body
          /\ Log(p, <<"commit", Cur(p).Version>>)
       \/ /\ UNCHANGED <<ledger, bodyLog>>
          /\ Log(p, <<"fail", "commit", Cur(p).Version>>)
    /\ idx' = [idx EXCEPT ![p] = @ + 1]
    /\ Goto(p, "loop")
    /\ tx' = [tx EXCEPT ![p] = NoTx]
    /\ UNCHANGED <<conc, tableExists, runs, migs, applied, startLedger, txLedger, prevRun>>
    /\ UNCHANGED nonMigVars

\* applyMigration: return tx.Commit().  A commit makes the body and the
\* ledger row durable together; a failed commit discards the transaction.
Commit(p) ==
    /\ pc[p] = "commit"
    /\ \/ /\ ledger' = ledger \cup tx[p].rows
          /\ bodyLog' = bodyLog \o tx[p].body
          /\ Log(p, <<"commit", Cur(p).Version>>)
          /\ idx' = [idx EXCEPT ![p] = @ + 1]
          /\ Goto(p, "loop")
       \/ /\ UNCHANGED <<ledger, bodyLog, idx>>
          /\ Log(p, <<"fail", "commit", Cur(p).Version>>)
          /\ Return(p, DriverErr("commit"))
    /\ tx' = [tx EXCEPT ![p] = NoTx]
    /\ UNCHANGED <<conc, tableExists, runs, migs, applied, startLedger, txLedger, prevRun>>
    /\ UNCHANGED nonMigVars

(***************************************************************************)
(* LoadSchemaMigrations and parseSchemaMigration.  A file name is a        *)
(* sequence of characters; a path is a directory and a base name.          *)
(***************************************************************************)
MaxFiles == 3

Digits == {"0", "1", "2", "3", "4", "5", "6", "7", "8", "9"}

DigitVal(c) ==
    CASE c = "0" -> 0 [] c = "1" -> 1 [] c = "2" -> 2 [] c = "3" -> 3
      [] c = "4" -> 4 [] c = "5" -> 5 [] c = "6" -> 6 [] c = "7" -> 7
      [] c = "8" -> 8 [] c = "9" -> 9

DigitChar(d) == CHOOSE c \in Digits : DigitVal(c) = d

Separators == {"-", "_"}

\* The letters that occur in the file names of the model.
Letters == {"a", "b", "g", "i", "l", "m", "n", "o", "q", "r", "s", "t", "x"}

\* The class [A-Za-z0-9_-] of migrationFilenamePattern.
DescriptionClass == Letters \cup Digits \cup Separators

DotSql == <<".", "s", "q", "l">>

\* Byte order of the characters, as Go compares strings.
Ascii(c) ==
    CASE c = " " -> 32 [] c = "-" -> 45 [] c = "." -> 46
      [] c \in Digits -> 48 + DigitVal(c)
      [] c = "_" -> 95
      [] c = "a" -> 97 [] c = "b" -> 98 [] c = "g" -> 103 [] c = "i" -> 105
      [] c = "l" -> 108 [] c = "m" -> 109 [] c = "n" -> 110 [] c = "o" -> 111
      [] c = "q" -> 113 [] c = "r" -> 114 [] c = "s" -> 115 [] c = "t" -> 116
      [] c = "x" -> 120

RECURSIVE StringLess(_, _)
\* a < b on Go strings.
StringLess(a, b) ==
    IF b = <<>> THEN FALSE
    ELSE IF a = <<>> THEN TRUE
    ELSE IF Head(a) = Head(b) THEN StringLess(Tail(a), Tail(b))
    ELSE Ascii(Head(a)) < Ascii(Head(b))

RECURSIVE LeadingDigits(_)
\* Length of the longest prefix of digits: the greedy (\d+).
LeadingDigits(s) ==
    IF s # <<>> /\ Head(s) \in Digits THEN 1 + LeadingDigits(Tail(s)) ELSE 0

\* migrationFilenamePattern.FindStringSubmatch(base):
\* ^(\d+)[-_]?([A-Za-z0-9_-]*)\.sql$
FindStringSubmatch(base) ==
    LET n == Len(base)
        sql == n >= 4 /\ SubSeq(base, n - 3, n) = DotSql
        stem == IF sql THEN SubSeq(base, 1, n - 4) ELSE <<>>
        d == LeadingDigits(stem)
        rest == SubSeq(stem, d + 1, Len(stem))
        desc == IF rest # <<>> /\ Head(rest) \in Separators THEN Tail(rest) ELSE rest
    IN  IF sql /\ d >= 1 /\ \A i \in 1..Len(desc) : desc[i] \in DescriptionClass
          THEN [ok |-> TRUE, digits |-> SubSeq(stem, 1, d), desc |-> desc]
          ELSE [ok |-> FALSE, digits |-> <<>>, desc |-> <<>>]

RECURSIVE ParseInt(_)
\* strconv.ParseInt(s, 10, 64) of a string of digits.  Its range error needs
\* more than 18 digits, which no file name of the model has.
ParseInt(s) ==
    IF s = <<>> THEN 0
    ELSE 10 * ParseInt(SubSeq(s, 1, Len(s) - 1)) + DigitVal(s[Len(s)])

RECURSIVE TrimLeft(_, _)
TrimLeft(s, cut) ==
    IF s # <<>> /\ Head(s) \in cut THEN TrimLeft(Tail(s), cut) ELSE s

RECURSIVE TrimRight(_, _)
TrimRight(s, cut) ==
    IF s # <<>> /\ s[Len(s)] \in cut
      THEN TrimRight(SubSeq(s, 1, Len(s) - 1), cut) ELSE s

\* strings.Trim(s, cutset)
Trim(s, cut) == TrimRight(TrimLeft(s, cut), cut)

Whitespace == {" ", "\t", "\n"}

\* strings.TrimSpace(s)
TrimSpace(s) == Trim(s, Whitespace)

RECURSIVE Itoa(_)
\* %d of a positive integer.
Itoa(n) ==
    IF n < 10 THEN <<DigitChar(n)>> ELSE Itoa(n \div 10) \o <<DigitChar(n % 10)>>

\* fmt.Sprintf("migration_%d", version)
DefaultName(version) ==
    <<"m", "i", "g", "r", "a", "t", "i", "o", "n", "_">> \o Itoa(version)

\* A path: the directory, the separator and the base name.
Path(dir, base) == <<dir, "/">> \o base

RECURSIVE Base(_)
\* filepath.Base(path): what follows the last separator.
Base(path) ==
    IF \E i \in 1..Len(path) : path[i] = "/" THEN Base(Tail(path)) ELSE path

Unreadable == <<"unreadable">>

\* The file system: the paths of the model and what os.ReadFile returns for
\* each (Unreadable: an error).
FileSystem ==
    (Path("m", <<"1", ".", "s", "q", "l">>) :> <<"x">>)
 @@ (Path("n", <<"1", ".", "s", "q", "l">>) :> <<"x">>)
 @@ (Path("m", <<"0", "0", "1", "_", "a", ".", "s", "q", "l">>) :> <<" ", "x", " ">>)
 @@ (Path("m", <<"1", "_", "b", ".", "s", "q", "l">>) :> <<" ">>)
 @@ (Path("m", <<"2", "-", "a", ".", "s", "q", "l">>) :> <<"x", " ", "x">>)
 @@ (Path("m", <<"0", "2", "_", "_", ".", "s", "q", "l">>) :> Unreadable)
 @@ (Path("m", <<"1", "0", "a", ".", "s", "q", "l">>) :> <<"x">>)
 @@ (Path("m", <<"9", "_", "b", ".", "s", "q", "l">>) :> <<"x">>)
 @@ (Path("m", <<"3", ".", "s", "q", "l">>) :> <<>>)
 @@ (Path("m", <<"0", "_", "a", ".", "s", "q", "l">>) :> <<"x">>)
 @@ (Path("m", <<"a", "_", "1", ".", "s", "q", "l">>) :> <<"x">>)
 @@ (Path("m", <<"4", "_", "a", ".", "t", "x", "t">>) :> <<"x">>)
 @@ (Path("m", <<"5", ".", "a", ".", "s", "q", "l">>) :> <<"x">>)

Paths == DOMAIN FileSystem

NoError == [kind |-> "nil", version |-> 0, names |-> <<>>]

\* An error of the loader: the fixed text and the values formatted into it.
LoadError(kind, version, names) == [kind |-> kind, version |-> version, names |-> names]

\* parseSchemaMigration without the check of the trimmed body.
parseSchemaMigrationAnyBody(path) ==
    LET base == Base(path)
        matches == FindStringSubmatch(base)
        version == ParseInt(matches.digits)
        trimmed == Trim(matches.desc, {"-", "_", " "})
        name == IF trimmed = <<>> THEN DefaultName(version) ELSE trimmed
        sqlBytes == FileSystem[path]
        none == [Version |-> 0, Name |-> <<>>, File |-> path, SQL |-> <<>>]
    IN  IF ~matches.ok
          THEN [mig |-> none, err |-> LoadError("invalid migration filename", 0, <<base>>)]
        ELSE IF version <= 0
          THEN [mig |-> none, err |-> LoadError("migration version must be positive", 0, <<base>>)]
        ELSE IF sqlBytes = Unreadable
          THEN [mig |-> none, err |-> LoadError("read migration", 0, <<path>>)]
        ELSE [mig |-> [Version |-> version, Name |-> name, File |-> path,
                       SQL |-> TrimSpace(sqlBytes)],
              err |-> NoError]

\* parseSchemaMigration(path): (migration, error)
parseSchemaMigration(path) ==
    LET base == Base(path)
        matches == FindStringSubmatch(base)
        version == ParseInt(matches.digits)
        trimmed == Trim(matches.desc, {"-", "_", " "})
        name == IF trimmed = <<>> THEN DefaultName(version) ELSE trimmed
        sqlBytes == FileSystem[path]
        sqlText == IF sqlBytes = Unreadable THEN <<>> ELSE TrimSpace(sqlBytes)
        none == [Version |-> 0, Name |-> <<>>, File |-> path, SQL |-> <<>>]
    IN  IF ~matches.ok
          THEN [mig |-> none, err |-> LoadError("invalid migration filename", 0, <<base>>)]
        ELSE IF version <= 0
          THEN [mig |-> none, err |-> LoadError("migration version must be positive", 0, <<base>>)]
        ELSE IF sqlBytes = Unreadable
          THEN [mig |-> none, err |-> LoadError("read migration", 0, <<path>>)]
        ELSE IF sqlText = <<>>
          THEN [mig |-> none, err |-> LoadError("migration is empty", 0, <<path>>)]
        ELSE [mig |-> [Version |-> version, Name |-> name, File |-> path, SQL |-> sqlText],
              err |-> NoError]

\* A less function that orders by file name, as text.
MigrationLessByFile(a, b) == StringLess(Base(a.File), Base(b.File))

\* The less function handed to sort.Slice.
MigrationLess(a, b) ==
    IF a.Version = b.Version THEN StringLess(a.Name, b.Name)
    ELSE a.Version < b.Version

RECURSIVE SortSlice(_)
\* sort.Slice(migrations, less): the elements in the order of less.
SortSlice(ms) ==
    IF ms = <<>> THEN <<>>
    ELSE LET k == CHOOSE i \in 1..Len(ms) :
                     \A j \in 1..Len(ms) : ~MigrationLess(ms[j], ms[i])
         IN  <<ms[k]>> \o SortSlice(SubSeq(ms, 1, k - 1) \o SubSeq(ms, k + 1, Len(ms)))

RECURSIVE LoadLoopNoSeen(_, _, _, _)
\* The range loop without the lookup in the seen map.
LoadLoopNoSeen(fs, i, seen, migrations) ==
    IF i > Len(fs)
      THEN [migs |-> SortSlice(migrations), err |-> NoError]
    ELSE LET r == parseSchemaMigration(fs[i])
         IN  IF r.err # NoError
               THEN [migs |-> <<>>, err |-> r.err]
             ELSE LoadLoopNoSeen(fs, i + 1, (r.mig.Version :> fs[i]) @@ seen,
                                 Append(migrations, r.mig))

RECURSIVE LoadLoop(_, _, _, _)
\* The range loop of LoadSchemaMigrations over fs[i..], with the seen map
\* and the migrations collected so far; then the sort.
LoadLoop(fs, i, seen, migrations) ==
    IF i > Len(fs)
      THEN [migs |-> SortSlice(migrations), err |-> NoError]
    ELSE LET r == parseSchemaMigration(fs[i])
         IN  IF r.err # NoError
               THEN [migs |-> <<>>, err |-> r.err]
             ELSE IF r.mig.Version \in DOMAIN seen
               THEN [migs |-> <<>>,
                     err |-> LoadError("duplicate schema migration version",
                                       r.mig.Version, <<seen[r.mig.Version], fs[i]>>)]
             ELSE LoadLoop(fs, i + 1, (r.mig.Version :> fs[i]) @@ seen,
                           Append(migrations, r.mig))

LoadSchemaMigrations(fs) ==
    IF Len(fs) = 0
      THEN [migs |-> <<>>, err |-> LoadError("no schema migration files provided", 0, <<>>)]
      ELSE LoadLoop(fs, 1, <<>>, <<>>)

NotLoaded == [migs |-> <<>>, err |-> [kind |-> "-", version |-> 0, names |-> <<>>]]

RECURSIVE SeqsUpTo(_, _)
\* The sequences over S of length at most n.
SeqsUpTo(S, n) ==
    IF n = 0 THEN {<<>>}
    ELSE LET shorter == SeqsUpTo(S, n - 1)
         IN  shorter \cup { Append(q, x) : q \in { r \in shorter : Len(r) = n - 1 }, x \in S }

(***************************************************************************)
(* The procedure parser: Parser.ParseFile, parseColumns, Validate.  A line *)
(* is a sequence of characters, a file a sequence of lines.                *)
(***************************************************************************)
MaxParams == 2
MaxReturns == 2

\* The class [A-Za-z0-9_] of the header patterns: the letters of the file
\* names, those of the header keywords and the capitals of the model.
IdentClass ==
    Letters \cup {"c", "d", "e", "p", "u", "y"} \cup {"G", "I", "N", "T"}
      \cup Digits \cup {"_"}

\* strings.ToLower(s)
ToLower(s) ==
    LET lower(c) ==
          CASE c = "G" -> "g" [] c = "I" -> "i" [] c = "N" -> "n" [] c = "T" -> "t"
            [] OTHER -> c
    IN  [i \in 1..Len(s) |-> lower(s[i])]

normalizeType(dbType) == TrimSpace(ToLower(dbType))

ReturnOne == <<":", "o", "n", "e">>
ReturnMany == <<":", "m", "a", "n", "y">>
ReturnExec == <<":", "e", "x", "e", "c">>

\* The alternatives of (one|many|exec), with the colon before them.
ReturnKinds == {ReturnOne, ReturnMany, ReturnExec}

Dashes == <<"-", "-">>
KwName == <<"n", "a", "m", "e", ":">>
KwParam == <<"p", "a", "r", "a", "m", ":">>
KwReturns == <<"r", "e", "t", "u", "r", "n", "s", ":">>

Min(S) == CHOOSE x \in S : \A y \in S : x <= y

\* The literal lit stands in s at position i.
HasPrefixAt(s, i, lit) ==
    /\ i + Len(lit) - 1 <= Len(s)
    /\ SubSeq(s, i, i + Len(lit) - 1) = lit

\* strings.HasPrefix(s, prefix)
HasPrefix(s, prefix) == HasPrefixAt(s, 1, prefix)

RECURSIVE SkipClass(_, _, _)
\* A greedy repetition of a character class from position i: the position
\* of the first character outside the class.
SkipClass(s, i, class) ==
    IF i <= Len(s) /\ s[i] \in class THEN SkipClass(s, i + 1, class) ELSE i

NoMatch == [ok |-> FALSE, m1 |-> <<>>, m2 |-> <<>>]

\* namePattern anchored at position i:
\* --\s*name:\s*([A-Za-z0-9_]+)\s*(:(one|many|exec))
NameMatchAt(s, i) ==
    LET j == SkipClass(s, i + 2, Whitespace)
        k == SkipClass(s, j + 5, Whitespace)
        e == SkipClass(s, k, IdentClass)
        l == SkipClass(s, e, Whitespace)
        kinds == { kd \in ReturnKinds : HasPrefixAt(s, l, kd) }
    IN  IF HasPrefixAt(s, i, Dashes) /\ HasPrefixAt(s, j, KwName) /\ e > k /\ kinds # {}
          THEN [ok |-> TRUE, m1 |-> SubSeq(s, k, e - 1), m2 |-> CHOOSE kd \in kinds : TRUE]
          ELSE NoMatch

\* paramPattern anchored at position i: --\s*param:\s*([A-Za-z0-9_]+)\s+(.+)
\* When nothing follows the white space, \s+ gives its last character to (.+).
ParamMatchAt(s, i) ==
    LET j == SkipClass(s, i + 2, Whitespace)
        k == SkipClass(s, j + 6, Whitespace)
        e == SkipClass(s, k, IdentClass)
        w == SkipClass(s, e, Whitespace)
    IN  IF ~(HasPrefixAt(s, i, Dashes) /\ HasPrefixAt(s, j, KwParam) /\ e > k)
          THEN NoMatch
        ELSE IF w > e /\ w <= Len(s)
          THEN [ok |-> TRUE, m1 |-> SubSeq(s, k, e - 1), m2 |-> SubSeq(s, w, Len(s))]
        ELSE IF w > e + 1 /\ w > Len(s)
          THEN [ok |-> TRUE, m1 |-> SubSeq(s, k, e - 1), m2 |-> <<s[Len(s)]>>]
        ELSE NoMatch

\* returnsPattern anchored at position i: --\s*returns:\s*(.+)
ReturnsMatchAt(s, i) ==
    LET j == SkipClass(s, i + 2, Whitespace)
        k == SkipClass(s, j + 8, Whitespace)
    IN  IF ~(HasPrefixAt(s, i, Dashes) /\ HasPrefixAt(s, j, KwReturns))
          THEN NoMatch
        ELSE IF k <= Len(s)
          THEN [ok |-> TRUE, m1 |-> SubSeq(s, k, Len(s)), m2 |-> <<>>]
        ELSE IF k > j + 8
          THEN [ok |-> TRUE, m1 |-> <<s[Len(s)]>>, m2 |-> <<>>]
        ELSE NoMatch

\* FindStringSubmatch of the three patterns: the leftmost match in the line.
FindName(s) ==
    LET hits == { i \in 1..Len(s) : NameMatchAt(s, i).ok }
    IN  IF hits = {} THEN NoMatch ELSE NameMatchAt(s, Min(hits))

FindParam(s) ==
    LET hits == { i \in 1..Len(s) : ParamMatchAt(s, i).ok }
    IN  IF hits = {} THEN NoMatch ELSE ParamMatchAt(s, Min(hits))

FindReturns(s) ==
    LET hits == { i \in 1..Len(s) : ReturnsMatchAt(s, i).ok }
    IN  IF hits = {} THEN NoMatch ELSE ReturnsMatchAt(s, Min(hits))

RECURSIVE Split(_, _)
\* strings.Split(s, sep) for a separator of one character.
Split(s, sep) ==
    LET at == { i \in 1..Len(s) : s[i] = sep }
    IN  IF at = {} THEN <<s>>
        ELSE <<SubSeq(s, 1, Min(at) - 1)>> \o Split(SubSeq(s, Min(at) + 1, Len(s)), sep)

RECURSIVE Join(_, _)
\* strings.Join(elems, sep)
Join(elems, sep) ==
    IF elems = <<>> THEN <<>>
    ELSE IF Len(elems) = 1 THEN elems[1]
    ELSE elems[1] \o sep \o Join(Tail(elems), sep)

RECURSIVE Fields(_)
\* strings.Fields(s): the maximal runs of characters that are not white space.
Fields(s) ==
    LET t == TrimLeft(s, Whitespace)
        ws == { i \in 1..Len(t) : t[i] \in Whitespace }
        e == IF ws = {} THEN Len(t) ELSE Min(ws) - 1
    IN  IF t = <<>> THEN <<>>
        ELSE <<SubSeq(t, 1, e)>> \o Fields(SubSeq(t, e + 1, Len(t)))

Param(name, dbType) == [Name |-> name, DBType |-> dbType]
Column(name, dbType) == [Name |-> name, DBType |-> dbType]

RECURSIVE ColumnsOf(_)
\* The loop of parseColumns over the parts between the commas.
ColumnsOf(parts) ==
    IF parts = <<>> THEN <<>>
    ELSE LET part == TrimSpace(Head(parts))
             segments == Fields(part)
         IN  IF part = <<>> \/ Len(segments) < 2
               THEN ColumnsOf(Tail(parts))
               ELSE <<Column(segments[1], normalizeType(Join(Tail(segments), <<" ">>)))>>
                      \o ColumnsOf(Tail(parts))

parseColumns(def) == ColumnsOf(Split(def, ","))

NoProcedure ==
    [Name |-> <<>>, File |-> <<>>, SQL |-> <<>>, Kind |-> <<>>,
     Params |-> <<>>, Returns |-> <<>>]

\* Validate without the check of the result columns.
ValidateAnyReturns(p) ==
    IF p.Name = <<>> THEN "missing -- name metadata"
    ELSE IF p.Kind \notin ReturnKinds THEN "unknown return kind"
    ELSE IF p.SQL = <<>> THEN "procedure SQL body is empty"
    ELSE "nil"

\* Procedure.Validate: the text of the error, or "nil".
Validate(p) ==
    IF p.Name = <<>> THEN "missing -- name metadata"
    ELSE IF p.Kind \notin ReturnKinds THEN "unknown return kind"
    ELSE IF p.Kind # ReturnExec /\ Len(p.Returns) = 0
      THEN "returning procedure must declare -- returns columns"
    ELSE IF p.SQL = <<>> THEN "procedure SQL body is empty"
    ELSE "nil"

RECURSIVE ScanLinesPrepend(_, _, _, _)
\* The scanner loop with params and columns put in front of those read before.
ScanLinesPrepend(lines, i, proc, sqlLines) ==
    IF i > Len(lines) THEN [proc |-> proc, sqlLines |-> sqlLines]
    ELSE LET line == lines[i]
             trimmed == TrimSpace(line)
             nm == FindName(line)
             pm == FindParam(line)
             rm == FindReturns(line)
         IN  IF nm.ok
               THEN ScanLinesPrepend(lines, i + 1,
                      [proc EXCEPT !.Name = nm.m1, !.Kind = nm.m2], sqlLines)
             ELSE IF pm.ok
               THEN ScanLinesPrepend(lines, i + 1,
                      [proc EXCEPT !.Params = <<Param(pm.m1, normalizeType(pm.m2))>> \o @],
                      sqlLines)
             ELSE IF rm.ok
               THEN ScanLinesPrepend(lines, i + 1,
                      [proc EXCEPT !.Returns = parseColumns(rm.m1) \o @], sqlLines)
             ELSE IF ~HasPrefix(trimmed, Dashes)
               THEN ScanLinesPrepend(lines, i + 1, proc, Append(sqlLines, line))
             ELSE ScanLinesPrepend(lines, i + 1, proc, sqlLines)

RECURSIVE ScanLinesFallThrough(_, _, _, _)
\* The scanner loop with a name header that is also tried as a param header.
ScanLinesFallThrough(lines, i, proc, sqlLines) ==
    IF i > Len(lines) THEN [proc |-> proc, sqlLines |-> sqlLines]
    ELSE LET line == lines[i]
             trimmed == TrimSpace(line)
             nm == FindName(line)
             pm == FindParam(line)
             rm == FindReturns(line)
         IN  IF nm.ok /\ pm.ok
               THEN ScanLinesFallThrough(lines, i + 1,
                      [proc EXCEPT !.Name = nm.m1, !.Kind = nm.m2,
                                   !.Params = Append(@, Param(pm.m1, normalizeType(pm.m2)))],
                      sqlLines)
             ELSE IF nm.ok
               THEN ScanLinesFallThrough(lines, i + 1,
                      [proc EXCEPT !.Name = nm.m1, !.Kind = nm.m2], sqlLines)
             ELSE IF pm.ok
               THEN ScanLinesFallThrough(lines, i + 1,
                      [proc EXCEPT !.Params = Append(@, Param(pm.m1, normalizeType(pm.m2)))],
                      sqlLines)
             ELSE IF rm.ok
               THEN ScanLinesFallThrough(lines, i + 1,
                      [proc EXCEPT !.Returns = @ \o parseColumns(rm.m1)], sqlLines)
             ELSE IF ~HasPrefix(trimmed, Dashes)
               THEN ScanLinesFallThrough(lines, i + 1, proc, Append(sqlLines, line))
             ELSE ScanLinesFallThrough(lines, i + 1, proc, sqlLines)

RECURSIVE ScanLines(_, _, _, _)
\* The scanner loop of ParseFile over lines[i..]: the procedure and the body
\* lines collected so far.
ScanLines(lines, i, proc, sqlLines) ==
    IF i > Len(lines) THEN [proc |-> proc, sqlLines |-> sqlLines]
    ELSE LET line == lines[i]
             trimmed == TrimSpace(line)
             nm == FindName(line)
             pm == FindParam(line)
             rm == FindReturns(line)
         IN  IF nm.ok
               THEN ScanLines(lines, i + 1,
                      [proc EXCEPT !.Name = nm.m1, !.Kind = nm.m2], sqlLines)
             ELSE IF pm.ok
               THEN ScanLines(lines, i + 1,
                      [proc EXCEPT !.Params = Append(@, Param(pm.m1, normalizeType(pm.m2)))],
                      sqlLines)
             ELSE IF rm.ok
               THEN ScanLines(lines, i + 1,
                      [proc EXCEPT !.Returns = @ \o parseColumns(rm.m1)], sqlLines)
             ELSE IF ~HasPrefix(trimmed, Dashes)
               THEN ScanLines(lines, i + 1, proc, Append(sqlLines, line))
             ELSE ScanLines(lines, i + 1, proc, sqlLines)

\* A file of procFiles: what os.Open and the scanner give for a path.
ProcFile(lines) == [ok |-> TRUE, lines |-> lines]
NoProcFile == [ok |-> FALSE, lines |-> <<>>]

NoParseError == [kind |-> "nil", file |-> <<>>, reason |-> "nil"]

\* fmt.Errorf("open SQL file: %w", err), fmt.Errorf("invalid procedure %s: %w", path, err)
ParseError(kind, file, reason) == [kind |-> kind, file |-> file, reason |-> reason]

\* Parser.ParseFile(path): (*Procedure, error)
ParseFile(path) ==
    LET fd == IF path \in DOMAIN procFiles THEN procFiles[path] ELSE NoProcFile
        scanned == ScanLines(fd.lines, 1, [NoProcedure EXCEPT !.File = path], <<>>)
        proc == [scanned.proc EXCEPT !.SQL = TrimSpace(Join(scanned.sqlLines, <<"\n">>))]
        invalid == Validate(proc)
    IN  IF ~fd.ok
          THEN [proc |-> NoProcedure, err |-> ParseError("open SQL file", path, "nil")]
        ELSE IF invalid # "nil"
          THEN [proc |-> NoProcedure, err |-> ParseError("invalid procedure", path, invalid)]
        ELSE [proc |-> proc, err |-> NoParseError]

(***************************************************************************)
(* The procedure units of the model.  A unit is written from what it       *)
(* declares, in the shapes of the source format:                           *)
(*   -- name: <ident> :one|:many|:exec                                     *)
(*   -- param: <ident> <type>                                              *)
(*   -- returns: <ident> <type>[, <ident> <type>]*                         *)
(* then an empty line and the body.                                        *)
(***************************************************************************)
Space == <<" ">>

TypeInt == <<"i", "n", "t">>

ParamSet ==
    { Param(<<"a">>, TypeInt), Param(<<"b", "_", "1">>, <<"I", "N", "T">>) }

\* The column lists of one returns header.
HeaderSet ==
    LET i == Column(<<"i">>, TypeInt)
        n == Column(<<"n">>, <<"T", " ", "t", " ", "x">>)
    IN  { <<i>>, <<n>>, <<i, n>> }

BodySet ==
    { <<>>,
      << <<"x">> >>,
      << <<" ", "x">>, <<>>, <<"x", " ", "-", "-", " ", "x">>, <<"-", "-", " ", "x">>, <<>> >> }

Declarations ==
    [Name : {<<"G", "_", "1">>}, Kind : ReturnKinds,
     Params : SeqsUpTo(ParamSet, MaxParams),
     Returns : SeqsUpTo(HeaderSet, MaxReturns),
     Body : BodySet]

NameHeader(name, kind) == Dashes \o Space \o KwName \o Space \o name \o Space \o kind

ParamHeader(p) == Dashes \o Space \o KwParam \o Space \o p.Name \o Space \o p.DBType

ReturnsHeader(cols) ==
    Dashes \o Space \o KwReturns \o Space
      \o Join([i \in 1..Len(cols) |-> cols[i].Name \o Space \o cols[i].DBType], <<",", " ">>)

\* The header lines of a declaration.
Headers(d) ==
    <<NameHeader(d.Name, d.Kind)>>
      \o [i \in 1..Len(d.Params) |-> ParamHeader(d.Params[i])]
      \o [i \in 1..Len(d.Returns) |-> ReturnsHeader(d.Returns[i])]

\* The text of the unit that declares d.
Render(d) == Headers(d) \o << <<>> >> \o d.Body

NoDeclaration ==
    [Name |-> <<>>, Kind |-> <<>>, Params |-> <<>>, Returns |-> <<>>, Body |-> <<>>]

Unit(d, wellFormed, file) == [decl |-> d, wellFormed |-> wellFormed, file |-> file]

\* Units outside these shapes: a file that cannot be opened, missing and
\* repeated headers, headers inside other lines, irregular white space.
OddUnits ==
  LET DeclExec == [NoDeclaration EXCEPT !.Name = <<"G">>, !.Kind = ReturnExec]
      DeclOne == [NoDeclaration EXCEPT !.Name = <<"G">>, !.Kind = ReturnOne]
  IN
    { Unit(NoDeclaration, FALSE, NoProcFile),
      Unit(NoDeclaration, FALSE, ProcFile(<<>>)),
      Unit(NoDeclaration, FALSE, ProcFile(<<ParamHeader(Param(<<"a">>, TypeInt)), <<"x">>>>)),
      Unit(DeclExec, FALSE,
           ProcFile(<<NameHeader(<<"a">>, ReturnOne), NameHeader(<<"G">>, ReturnExec), <<"x">>>>)),
      Unit(DeclExec, FALSE,
           ProcFile(<<NameHeader(<<"G">>, ReturnExec),
                      <<"x", " ">> \o ParamHeader(Param(<<"a">>, TypeInt)), <<"x">>>>)),
      Unit(DeclExec, FALSE,
           ProcFile(<<NameHeader(<<"G">>, ReturnExec) \o Space
                        \o ParamHeader(Param(<<"a">>, TypeInt)), <<"x">>>>)),
      Unit(DeclOne, FALSE,
           ProcFile(<<NameHeader(<<"G">>, ReturnOne),
                      Dashes \o Space \o KwReturns \o Space \o <<"i">>, <<"x">>>>)),
      Unit(DeclOne, FALSE,
           ProcFile(<<NameHeader(<<"G">>, ReturnOne),
                      Dashes \o Space \o KwReturns \o Space, <<"x">>>>)),
      Unit(DeclExec, FALSE,
           ProcFile(<<Dashes \o KwName \o <<"G">> \o ReturnExec,
                      Dashes \o KwParam \o <<"a", " ", " ">>, <<"x">>>>)),
      Unit(DeclExec, FALSE,
           ProcFile(<<ParamHeader(Param(<<"a">>, TypeInt)) \o Space
                        \o NameHeader(<<"G">>, ReturnExec), <<"x">>>>)),
      Unit(DeclExec, FALSE,
           ProcFile(<<NameHeader(<<"G">>, ReturnExec),
                      ParamHeader(Param(<<"a">>, TypeInt)) \o Space
                        \o ReturnsHeader(<<Column(<<"i">>, TypeInt)>>), <<"x">>>>)) }

\* The units in the shapes of the source format, and the others.
Units == { Unit(d, TRUE, ProcFile(Render(d))) : d \in Declarations } \cup OddUnits

\* The procedure files of the runs: two valid units in p, a unit without a
\* name header in b.
ProcFileSystem ==
    LET exec == [NoDeclaration EXCEPT !.Name = <<"g">>, !.Kind = ReturnExec,
                                      !.Body = << <<"x">> >>]
        one == [NoDeclaration EXCEPT !.Name = <<"o">>, !.Kind = ReturnOne,
                                     !.Returns = << <<Column(<<"i">>, TypeInt)>> >>,
                                     !.Body = << <<"x">> >>]
    IN  (Path("p", <<"g", ".", "s", "q", "l">>) :> ProcFile(Render(exec)))
     @@ (Path("p", <<"o", ".", "s", "q", "l">>) :> ProcFile(Render(one)))
     @@ (Path("b", <<"x", ".", "s", "q", "l">>) :> ProcFile(<< <<"x">> >>))

ParsePath == Path("p", <<"g", ".", "s", "q", "l">>)

NotParsed == [proc |-> NoProcedure, err |-> ParseError("-", <<>>, "nil")]

IdleParse ==
    /\ procFiles = ProcFileSystem
    /\ unit = Unit(NoDeclaration, FALSE, NoProcFile)
    /\ parseArg = <<>>
    /\ parsePc = "idle"
    /\ parseOut = NotParsed

\* The call ParseFile(parseArg).
ParseCall ==
    /\ parsePc = "call"
    /\ parseOut' = ParseFile(parseArg)
    /\ parsePc' = "done"
    /\ UNCHANGED <<procFiles, unit, parseArg, migVars, loadVars, resolveVars, runVars,
                   typeVars>>

(***************************************************************************)
(* ResolveFiles and CollectSQLFiles over the directories of the model: the *)
(* first element of a path is its directory.                               *)
(***************************************************************************)
MaxInputs == 2

\* The files on disk.
AllFiles == DOMAIN FileSystem \cup DOMAIN procFiles

\* os.Stat(in) finds a directory.
IsDir(in) == \E f \in AllFiles : in = <<f[1]>>

\* filepath.Ext(path): the suffix of the base name from its last dot.
Ext(path) ==
    LET base == Base(path)
        dots == { i \in 1..Len(base) : base[i] = "." }
    IN  IF dots = {} THEN <<>>
        ELSE SubSeq(base, CHOOSE i \in dots : \A j \in dots : j <= i, Len(base))

RECURSIVE WalkOrder(_)
\* filepath.Walk visits the files of a directory in lexical order.
WalkOrder(S) ==
    IF S = {} THEN <<>>
    ELSE LET first == CHOOSE f \in S : \A g \in S : ~StringLess(g, f)
         IN  <<first>> \o WalkOrder(S \ {first})

\* CollectSQLFiles(root) for a directory: its .sql files, whatever the case
\* of the extension.
CollectSQLFiles(root) ==
    WalkOrder({ f \in AllFiles : <<f[1]>> = root /\ ToLower(Ext(f)) = DotSql })

NoResolveError == [kind |-> "nil", inputs |-> <<>>]

\* fmt.Errorf("stat %s: %w", in, err), fmt.Errorf("no SQL files resolved from %v", inputs)
ResolveError(kind, ins) == [kind |-> kind, inputs |-> ins]

RECURSIVE ResolveLoop(_, _, _)
\* The range loop of ResolveFiles over inputs[i..] with the files appended
\* so far, then the check of the empty result.
ResolveLoop(ins, i, fs) ==
    IF i > Len(ins)
      THEN IF Len(fs) = 0
             THEN [files |-> <<>>, err |-> ResolveError("no SQL files resolved", ins)]
             ELSE [files |-> fs, err |-> NoResolveError]
    ELSE LET in == ins[i]
         IN  IF in = <<>> THEN ResolveLoop(ins, i + 1, fs)
             ELSE IF ~IsDir(in) /\ in \notin AllFiles
               THEN [files |-> <<>>, err |-> ResolveError("stat", <<in>>)]
             ELSE IF IsDir(in) THEN ResolveLoop(ins, i + 1, fs \o CollectSQLFiles(in))
             ELSE IF Ext(in) # DotSql THEN ResolveLoop(ins, i + 1, fs)
             ELSE ResolveLoop(ins, i + 1, Append(fs, in))

ResolveFiles(ins) == ResolveLoop(ins, 1, <<>>)

\* The inputs of the model: the empty string, directories, files in them,
\* a file that is no .sql file and a path that does not exist.
ResolveInputs ==
    { <<>>, <<"p">>, <<"n">>, <<"q">>,
      Path("p", <<"g", ".", "s", "q", "l">>), Path("p", <<"o", ".", "s", "q", "l">>),
      Path("n", <<"1", ".", "s", "q", "l">>), Path("m", <<"4", "_", "a", ".", "t", "x", "t">>) }

NotResolved == [files |-> <<>>, err |-> ResolveError("-", <<>>)]

IdleResolve ==
    /\ inputs = <<>>
    /\ resolvePc = "idle"
    /\ resolveOut = NotResolved

\* The call ResolveFiles(inputs).
ResolveCall ==
    /\ resolvePc = "call"
    /\ resolveOut' = ResolveFiles(inputs)
    /\ resolvePc' = "done"
    /\ UNCHANGED <<inputs, migVars, loadVars, parseVars, runVars, typeVars>>

(***************************************************************************)
(* Run: resolve -> parse -> load migrations -> prepareDB -> runMigrations  *)
(* -> generate -> schema models.  ParseFiles parses one file per step,     *)
(* SchemaMigrator.Migrate runs as the invocation "A" of the steps above,   *)
(* Migrator.Migrate executes one procedure body per step.  Every           *)
(* statement, the connection and every write to disk may fail.             *)
(***************************************************************************)
\* The options of the runs of the model.  DB, DBURL and SchemaModels are
\* TRUE when the field is set.
PipelineOptions ==
    [SQLInputs : { <<>>, << <<"p">> >>, << <<"q">> >>,
                   << Path("b", <<"x", ".", "s", "q", "l">>) >>,
                   << Path("p", <<"g", ".", "s", "q", "l">>), <<"b">>,
                      Path("p", <<"o", ".", "s", "q", "l">>) >> },
     MigrationInputs : { <<>>, << <<"n">> >>, << Path("m", <<"3", ".", "s", "q", "l">>) >>,
                         << Path("m", <<"2", "-", "a", ".", "s", "q", "l">>),
                            Path("n", <<"1", ".", "s", "q", "l">>) >> },
     OutputDir : {"", "out"},
     SkipMigrate : BOOLEAN, SkipGenerate : BOOLEAN,
     DB : BOOLEAN, DBURL : BOOLEAN, SchemaModels : BOOLEAN]

\* outputDir of Run: opts.OutputDir, "./generated" by default.
OutputDir == IF opts.OutputDir = "" THEN "./generated" ELSE opts.OutputDir

\* filepath.Join(dir, name)
JoinPath(dir, name) == <<dir, name>>

GeneratedNames == <<"db.go", "models.go", "queries.go">>

NilResult ==
    [nil |-> TRUE, Procedures |-> <<>>, SchemaMigrations |-> <<>>, OutputDir |-> "",
     GeneratedFiles |-> <<>>, SchemaFiles |-> <<>>]

NoRunError == [text |-> "nil", file |-> <<>>]

NotRun == [res |-> NilResult, err |-> [text |-> "-", file |-> <<>>]]

\* The database handle of Run: db is "nil", "caller" (opts.DB) or "owned"
\* (opened from DBURL); owned and caller tell whether that handle is open.
NoConn(o) == [db |-> "nil", owned |-> "none", caller |-> IF o.DB THEN "open" ELSE "none"]

IdleRun ==
    /\ opts = [SQLInputs |-> <<>>, MigrationInputs |-> <<>>, OutputDir |-> "",
               SkipMigrate |-> FALSE, SkipGenerate |-> FALSE,
               DB |-> FALSE, DBURL |-> FALSE, SchemaModels |-> FALSE]
    /\ runPc = "idle"
    /\ sqlFiles = <<>>
    /\ procs = <<>>
    /\ opened = <<>>
    /\ migFiles = <<>>
    /\ schemaMigrations = <<>>
    /\ conn = NoConn(opts)
    /\ procIdx = 0
    /\ procLog = <<>>
    /\ procRet = NoRet
    /\ generatedFiles = <<>>
    /\ disk = {}
    /\ introspected = FALSE
    /\ runOut = NotRun

\* Run returns (res, err): the deferred cleanup closes the connection that
\* prepareDB opened.
RunReturn(res, text, file) ==
    /\ runPc' = "done"
    /\ runOut' = [res |-> res, err |-> [text |-> text, file |-> file]]
    /\ conn' = [conn EXCEPT !.owned = IF @ = "open" THEN "closed" ELSE @]

\* Run up to ParseFiles: the check of the options and ResolveFiles of the
\* SQL inputs.
RunResolve ==
    /\ runPc = "start"
    /\ LET resolved == ResolveFiles(opts.SQLInputs)
       IN  IF Len(opts.SQLInputs) = 0 /\ Len(opts.MigrationInputs) = 0 /\ ~opts.SchemaModels
             THEN /\ RunReturn(NilResult,
                        "provide SQL inputs, migrations, or schema model options", <<>>)
                  /\ UNCHANGED sqlFiles
           ELSE IF Len(opts.SQLInputs) = 0
             THEN /\ runPc' = "resolveMigrations"
                  /\ UNCHANGED <<sqlFiles, runOut, conn>>
           ELSE IF resolved.err # NoResolveError
             THEN /\ RunReturn(NilResult, "resolve SQL inputs", <<>>)
                  /\ UNCHANGED sqlFiles
           ELSE /\ sqlFiles' = resolved.files
                /\ runPc' = "parse"
                /\ UNCHANGED <<runOut, conn>>
    /\ UNCHANGED <<opts, opened, procs, migFiles, schemaMigrations, procIdx, procLog, procRet,
                   generatedFiles, disk, introspected>>
    /\ UNCHANGED <<migVars, loadVars, parseVars, resolveVars, typeVars>>

\* ParseFiles going on to the next file after one that failed.
RunParseSkipFailed ==
    /\ runPc = "parse"
    /\ IF Len(opened) = Len(sqlFiles)
         THEN /\ runPc' = "resolveMigrations"
              /\ UNCHANGED <<procs, opened, runOut, conn>>
         ELSE LET file == sqlFiles[Len(opened) + 1]
                  parsed == ParseFile(file)
              IN  /\ opened' = Append(opened, file)
                  /\ procs' = IF parsed.err # NoParseError THEN procs
                                                           ELSE Append(procs, parsed.proc)
                  /\ UNCHANGED <<runPc, runOut, conn>>
    /\ UNCHANGED <<opts, sqlFiles, migFiles, schemaMigrations, procIdx, procLog, procRet,
                   generatedFiles, disk, introspected>>
    /\ UNCHANGED <<migVars, loadVars, parseVars, resolveVars, typeVars>>

\* One turn of the range loop of ParseFiles(sqlFiles), and its return to
\* Run: the first file that fails ends the loop and no procedure is returned.
RunParse ==
    /\ runPc = "parse"
    /\ IF Len(opened) = Len(sqlFiles)
         THEN /\ runPc' = "resolveMigrations"
              /\ UNCHANGED <<procs, opened, runOut, conn>>
         ELSE LET file == sqlFiles[Len(opened) + 1]
                  parsed == ParseFile(file)
              IN  /\ opened' = Append(opened, file)
                  /\ IF parsed.err # NoParseError
                       THEN /\ RunReturn(NilResult, "parse SQL files", parsed.err.file)
                            /\ procs' = <<>>
                       ELSE /\ procs' = Append(procs, parsed.proc)
                            /\ UNCHANGED <<runPc, runOut, conn>>
    /\ UNCHANGED <<opts, sqlFiles, migFiles, schemaMigrations, procIdx, procLog, procRet,
                   generatedFiles, disk, introspected>>
    /\ UNCHANGED <<migVars, loadVars, parseVars, resolveVars, typeVars>>

\* migFiles, err := ResolveFiles(opts.MigrationInputs)
RunResolveMigrations ==
    /\ runPc = "resolveMigrations"
    /\ LET resolved == ResolveFiles(opts.MigrationInputs)
       IN  IF Len(opts.MigrationInputs) = 0
             THEN /\ runPc' = "prepareDB"
                  /\ UNCHANGED <<migFiles, runOut, conn>>
           ELSE IF resolved.err # NoResolveError
             THEN /\ RunReturn(NilResult, "resolve migration inputs", <<>>)
                  /\ UNCHANGED migFiles
           ELSE /\ migFiles' = resolved.files
                /\ runPc' = "load"
                /\ UNCHANGED <<runOut, conn>>
    /\ UNCHANGED <<opts, opened, sqlFiles, procs, schemaMigrations, procIdx, procLog, procRet,
                   generatedFiles, disk, introspected>>
    /\ UNCHANGED <<migVars, loadVars, parseVars, resolveVars, typeVars>>

\* schemaMigrations, err = LoadSchemaMigrations(migFiles)
RunLoad ==
    /\ runPc = "load"
    /\ LET loaded == LoadSchemaMigrations(migFiles)
       IN  IF loaded.err # NoError
             THEN /\ RunReturn(NilResult, "load migrations", <<>>)
                  /\ UNCHANGED schemaMigrations
             ELSE /\ schemaMigrations' = loaded.migs
                  /\ runPc' = "prepareDB"
                  /\ UNCHANGED <<runOut, conn>>
    /\ UNCHANGED <<opts, opened, sqlFiles, procs, migFiles, procIdx, procLog, procRet,
                   generatedFiles, disk, introspected>>
    /\ UNCHANGED <<migVars, loadVars, parseVars, resolveVars, typeVars>>

\* prepareDB with a failed ping that leaves the new connection open.
prepareDBNoClose ==
    /\ runPc = "prepareDB"
    /\ IF opts.DB
         THEN /\ conn' = [conn EXCEPT !.db = "caller"]
              /\ runPc' = "migrate"
              /\ UNCHANGED runOut
       ELSE IF ~opts.DBURL
         THEN /\ runPc' = "migrate"
              /\ UNCHANGED <<conn, runOut>>
       ELSE \/ /\ runPc' = "done"
               /\ runOut' = [res |-> NilResult, err |-> [text |-> "open db", file |-> <<>>]]
               /\ UNCHANGED conn
            \/ /\ runPc' = "done"
               /\ runOut' = [res |-> NilResult, err |-> [text |-> "ping db", file |-> <<>>]]
               /\ conn' = [conn EXCEPT !.owned = "open"]
            \/ /\ conn' = [conn EXCEPT !.db = "owned", !.owned = "open"]
               /\ runPc' = "migrate"
               /\ UNCHANGED runOut
    /\ UNCHANGED <<opts, opened, sqlFiles, migFiles, procs, schemaMigrations, procIdx, procLog, procRet,
                   generatedFiles, disk, introspected>>
    /\ UNCHANGED <<migVars, loadVars, parseVars, resolveVars, typeVars>>

\* prepareDB and its use in Run: the handle of the caller, none without
\* DBURL, or sql.Open and PingContext; a failed ping closes the connection.
prepareDB ==
    /\ runPc = "prepareDB"
    /\ IF opts.DB
         THEN /\ conn' = [conn EXCEPT !.db = "caller"]
              /\ runPc' = "migrate"
              /\ UNCHANGED runOut
       ELSE IF ~opts.DBURL
         THEN /\ runPc' = "migrate"
              /\ UNCHANGED <<conn, runOut>>
       ELSE \/ /\ runPc' = "done"
               /\ runOut' = [res |-> NilResult, err |-> [text |-> "open db", file |-> <<>>]]
               /\ UNCHANGED conn
            \/ /\ runPc' = "done"
               /\ runOut' = [res |-> NilResult, err |-> [text |-> "ping db", file |-> <<>>]]
               /\ conn' = [conn EXCEPT !.owned = "closed"]
            \/ /\ conn' = [conn EXCEPT !.db = "owned", !.owned = "open"]
               /\ runPc' = "migrate"
               /\ UNCHANGED runOut
    /\ UNCHANGED <<opts, opened, sqlFiles, migFiles, procs, schemaMigrations, procIdx, procLog, procRet,
                   generatedFiles, disk, introspected>>
    /\ UNCHANGED <<migVars, loadVars, parseVars, resolveVars, typeVars>>

\* Run as if SkipMigrate were never set.
RunMigrateAlways ==
    /\ runPc = "migrate"
    /\ IF conn.db = "nil"
         THEN /\ RunReturn(NilResult, "DB or DBURL must be provided when migrations are enabled", <<>>)
              /\ UNCHANGED <<migVars, procIdx>>
       ELSE IF Len(schemaMigrations) > 0
         THEN /\ EnterMigrate("A", schemaMigrations)
              /\ runPc' = "schemaMigrate"
              /\ UNCHANGED <<runOut, conn, procIdx>>
       ELSE /\ runPc' = "procMigrate"
            /\ procIdx' = 1
            /\ UNCHANGED <<runOut, conn, migVars>>
    /\ UNCHANGED <<opts, opened, sqlFiles, migFiles, procs, schemaMigrations, procLog, procRet, generatedFiles,
                   disk, introspected>>
    /\ UNCHANGED <<loadVars, parseVars, resolveVars, typeVars>>

\* Run writing the generated files before it migrates.
RunMigrateAfterGenerate ==
    /\ runPc = "migrate"
    /\ disk' = disk \cup { JoinPath(OutputDir, GeneratedNames[i]) : i \in 1..Len(GeneratedNames) }
    /\ IF opts.SkipMigrate
         THEN /\ runPc' = "generate"
              /\ UNCHANGED <<runOut, conn, migVars, procIdx>>
       ELSE IF conn.db = "nil"
         THEN /\ RunReturn(NilResult, "DB or DBURL must be provided when migrations are enabled", <<>>)
              /\ UNCHANGED <<migVars, procIdx>>
       ELSE IF Len(schemaMigrations) > 0
         THEN /\ EnterMigrate("A", schemaMigrations)
              /\ runPc' = "schemaMigrate"
              /\ UNCHANGED <<runOut, conn, procIdx>>
       ELSE /\ runPc' = "procMigrate"
            /\ procIdx' = 1
            /\ UNCHANGED <<runOut, conn, migVars>>
    /\ UNCHANGED <<opts, opened, sqlFiles, migFiles, procs, schemaMigrations, procLog, procRet, generatedFiles,
                   introspected>>
    /\ UNCHANGED <<loadVars, parseVars, resolveVars, typeVars>>

\* Run taking a missing handle for a reason to skip the migrations.
RunMigrateWithoutHandle ==
    /\ runPc = "migrate"
    /\ IF opts.SkipMigrate \/ conn.db = "nil"
         THEN /\ runPc' = "generate"
              /\ UNCHANGED <<runOut, conn, migVars, procIdx>>
       ELSE IF Len(schemaMigrations) > 0
         THEN /\ EnterMigrate("A", schemaMigrations)
              /\ runPc' = "schemaMigrate"
              /\ UNCHANGED <<runOut, conn, procIdx>>
       ELSE /\ runPc' = "procMigrate"
            /\ procIdx' = 1
            /\ UNCHANGED <<runOut, conn, migVars>>
    /\ UNCHANGED <<opts, opened, sqlFiles, migFiles, procs, schemaMigrations, procLog, procRet, generatedFiles,
                   disk, introspected>>
    /\ UNCHANGED <<loadVars, parseVars, resolveVars, typeVars>>

\* Run after prepareDB: with SkipMigrate nothing; without a handle an
\* error; else runMigrations, which calls SchemaMigrator.Migrate when there
\* are schema migrations and Migrator.Migrate otherwise.
RunMigrate ==
    /\ runPc = "migrate"
    /\ IF opts.SkipMigrate
         THEN /\ runPc' = "generate"
              /\ UNCHANGED <<runOut, conn, migVars, procIdx>>
       ELSE IF conn.db = "nil"
         THEN /\ RunReturn(NilResult, "DB or DBURL must be provided when migrations are enabled", <<>>)
              /\ UNCHANGED <<migVars, procIdx>>
       ELSE IF Len(schemaMigrations) > 0
         THEN /\ EnterMigrate("A", schemaMigrations)
              /\ runPc' = "schemaMigrate"
              /\ UNCHANGED <<runOut, conn, procIdx>>
       ELSE /\ runPc' = "procMigrate"
            /\ procIdx' = 1
            /\ UNCHANGED <<runOut, conn, migVars>>
    /\ UNCHANGED <<opts, opened, sqlFiles, migFiles, procs, schemaMigrations, procLog, procRet, generatedFiles,
                   disk, introspected>>
    /\ UNCHANGED <<loadVars, parseVars, resolveVars, typeVars>>

\* runMigrations going on to the procedures whatever Migrate returned.
runMigrationsIgnoreError ==
    /\ runPc = "schemaMigrate"
    /\ pc["A"] = "done"
    /\ runPc' = "procMigrate"
    /\ procIdx' = 1
    /\ UNCHANGED <<runOut, conn>>
    /\ UNCHANGED <<opts, opened, sqlFiles, migFiles, procs, schemaMigrations, procLog, procRet, generatedFiles,
                   disk, introspected>>
    /\ UNCHANGED <<migVars, loadVars, parseVars, resolveVars, typeVars>>

\* runMigrations when SchemaMigrator.Migrate has returned: its error ends
\* Run, nil leads to Migrator.Migrate.
runMigrations ==
    /\ runPc = "schemaMigrate"
    /\ pc["A"] = "done"
    /\ IF ret["A"].kind = "error"
         THEN /\ RunReturn(NilResult, "schema migrations", ret["A"].file)
              /\ UNCHANGED procIdx
         ELSE /\ runPc' = "procMigrate"
              /\ procIdx' = 1
              /\ UNCHANGED <<runOut, conn>>
    /\ UNCHANGED <<opts, opened, sqlFiles, migFiles, procs, schemaMigrations, procLog, procRet, generatedFiles,
                   disk, introspected>>
    /\ UNCHANGED <<migVars, loadVars, parseVars, resolveVars, typeVars>>

\* Migrator.Migrate going on to the next procedure after a failed body.
MigratorMigrateContinue ==
    /\ runPc = "procMigrate"
    /\ IF procIdx > Len(procs)
         THEN /\ procRet' = Nil
              /\ runPc' = "generate"
              /\ UNCHANGED <<procIdx, procLog, runOut, conn>>
         ELSE /\ \/ procLog' = Append(procLog, procs[procIdx].File)
                 \/ UNCHANGED procLog
              /\ procIdx' = procIdx + 1
              /\ UNCHANGED <<procRet, runPc, runOut, conn>>
    /\ UNCHANGED <<opts, opened, sqlFiles, migFiles, procs, schemaMigrations, generatedFiles, disk, introspected>>
    /\ UNCHANGED <<migVars, loadVars, parseVars, resolveVars, typeVars>>

\* One turn of the range loop of Migrator.Migrate, and its return to
\* runMigrations and Run: exec runs the body on the database outside any
\* transaction (an empty body is not sent); the first error ends the loop.
MigratorMigrate ==
    /\ runPc = "procMigrate"
    /\ IF procIdx > Len(procs)
         THEN /\ procRet' = Nil
              /\ runPc' = "generate"
              /\ UNCHANGED <<procIdx, procLog, runOut, conn>>
       ELSE IF procs[procIdx].SQL = <<>>
         THEN /\ procIdx' = procIdx + 1
              /\ UNCHANGED <<procRet, procLog, runPc, runOut, conn>>
       ELSE \/ /\ procLog' = Append(procLog, procs[procIdx].File)
               /\ procIdx' = procIdx + 1
               /\ UNCHANGED <<procRet, runPc, runOut, conn>>
            \/ /\ procRet' = ApplyErr("exec", procs[procIdx].File)
               /\ RunReturn(NilResult, "procedure migrations", procs[procIdx].File)
               /\ UNCHANGED <<procIdx, procLog>>
    /\ UNCHANGED <<opts, opened, sqlFiles, migFiles, procs, schemaMigrations, generatedFiles, disk, introspected>>
    /\ UNCHANGED <<migVars, loadVars, parseVars, resolveVars, typeVars>>

\* The generation stage with the error of the last write dropped.
RunGenerateLastWriteUnchecked ==
    /\ runPc = "generate"
    /\ IF opts.SkipGenerate \/ Len(procs) = 0
         THEN /\ runPc' = "schemaModels"
              /\ UNCHANGED <<generatedFiles, disk, runOut, conn>>
         ELSE \E written \in 0..Len(GeneratedNames) :
                /\ disk' = disk \cup { JoinPath(OutputDir, GeneratedNames[i]) : i \in 1..written }
                /\ IF written < Len(GeneratedNames) - 1
                     THEN /\ RunReturn(NilResult, "generate Go code", <<>>)
                          /\ UNCHANGED generatedFiles
                     ELSE /\ generatedFiles' =
                               [i \in 1..Len(GeneratedNames) |->
                                  JoinPath(OutputDir, GeneratedNames[i])]
                          /\ runPc' = "schemaModels"
                          /\ UNCHANGED <<runOut, conn>>
    /\ UNCHANGED <<opts, opened, sqlFiles, migFiles, procs, schemaMigrations, procIdx, procLog, procRet, introspected>>
    /\ UNCHANGED <<migVars, loadVars, parseVars, resolveVars, typeVars>>

\* The generation stage of Run: Generator.Generate makes the directory and
\* CodeGenerator.Generate writes db.go, models.go and queries.go in this
\* order; the first failure returns and leaves what was written.
RunGenerate ==
    /\ runPc = "generate"
    /\ IF opts.SkipGenerate \/ Len(procs) = 0
         THEN /\ runPc' = "schemaModels"
              /\ UNCHANGED <<generatedFiles, disk, runOut, conn>>
         ELSE \E written \in 0..Len(GeneratedNames) :
                /\ disk' = disk \cup { JoinPath(OutputDir, GeneratedNames[i]) : i \in 1..written }
                /\ IF written < Len(GeneratedNames)
                     THEN /\ RunReturn(NilResult, "generate Go code", <<>>)
                          /\ UNCHANGED generatedFiles
                     ELSE /\ generatedFiles' =
                               [i \in 1..Len(GeneratedNames) |->
                                  JoinPath(OutputDir, GeneratedNames[i])]
                          /\ runPc' = "schemaModels"
                          /\ UNCHANGED <<runOut, conn>>
    /\ UNCHANGED <<opts, opened, sqlFiles, migFiles, procs, schemaMigrations, procIdx, procLog, procRet, introspected>>
    /\ UNCHANGED <<migVars, loadVars, parseVars, resolveVars, typeVars>>

\* The result of a run that succeeds.
PipelineResult(schemaFiles) ==
    [nil |-> FALSE, Procedures |-> procs, SchemaMigrations |-> schemaMigrations,
     OutputDir |-> OutputDir, GeneratedFiles |-> generatedFiles,
     SchemaFiles |-> schemaFiles]

\* The schema model stage of Run and its return: loadSchemaTables queries
\* the catalog, SchemaModelGenerator.Generate writes schema_models.go when
\* there are tables.
RunSchemaModels ==
    /\ runPc = "schemaModels"
    /\ IF ~opts.SchemaModels
         THEN /\ RunReturn(PipelineResult(<<>>), "nil", <<>>)
              /\ UNCHANGED <<disk, introspected>>
       ELSE IF conn.db = "nil"
         THEN /\ RunReturn(NilResult,
                   "schema model generation requires a database connection or DBURL", <<>>)
              /\ UNCHANGED <<disk, introspected>>
       ELSE /\ introspected' = TRUE
            /\ \/ /\ RunReturn(NilResult, "introspect schema", <<>>)
                  /\ UNCHANGED disk
               \/ /\ RunReturn(PipelineResult(<<>>), "nil", <<>>)
                  /\ UNCHANGED disk
               \/ /\ RunReturn(NilResult, "generate schema models", <<>>)
                  /\ UNCHANGED disk
               \/ /\ RunReturn(PipelineResult(<<JoinPath(OutputDir, "schema_models.go")>>),
                               "nil", <<>>)
                  /\ disk' = disk \cup {JoinPath(OutputDir, "schema_models.go")}
    /\ UNCHANGED <<opts, opened, sqlFiles, migFiles, procs, schemaMigrations, procIdx, procLog, procRet, generatedFiles>>
    /\ UNCHANGED <<migVars, loadVars, parseVars, resolveVars, typeVars>>

(***************************************************************************)
(* The type mapping of the generators: sqlTypeToGo and goTypeForColumn.    *)
(* A declared type and a Go type are sequences of characters.              *)
(***************************************************************************)
\* strings.Contains(s, substr)
Contains(s, substr) == \E i \in 1..(Len(s) + 1) : HasPrefixAt(s, i, substr)

\* The Go types sqlTypeToGo returns.
GoType ==
    [int16 |-> <<"i", "n", "t", "1", "6">>, int32 |-> <<"i", "n", "t", "3", "2">>,
     int64 |-> <<"i", "n", "t", "6", "4">>, string |-> <<"s", "t", "r", "i", "n", "g">>,
     bool |-> <<"b", "o", "o", "l">>, float64 |-> <<"f", "l", "o", "a", "t", "6", "4">>,
     time |-> <<"t", "i", "m", "e", ".", "T", "i", "m", "e">>,
     bytes |-> <<"[", "]", "b", "y", "t", "e">>,
     any |-> <<"i", "n", "t", "e", "r", "f", "a", "c", "e", "{", "}">>]

\* sqlTypeToGo with the case of the declared type left as it is.
sqlTypeToGoCaseSensitive(dbType) ==
    LET t == TrimSpace(dbType)
    IN  CASE HasPrefix(t, <<"i", "n", "t">>) -> GoType.int32
          [] HasPrefix(t, <<"b", "i", "g", "i", "n", "t">>) -> GoType.int64
          [] HasPrefix(t, <<"s", "m", "a", "l", "l", "i", "n", "t">>) -> GoType.int16
          [] t = <<"s", "e", "r", "i", "a", "l">> -> GoType.int32
          [] t = <<"b", "i", "g", "s", "e", "r", "i", "a", "l">> -> GoType.int64
          [] \/ Contains(t, <<"c", "h", "a", "r">>)
             \/ Contains(t, <<"t", "e", "x", "t">>)
             \/ Contains(t, <<"u", "u", "i", "d">>) -> GoType.string
          [] HasPrefix(t, <<"b", "o", "o", "l">>) -> GoType.bool
          [] \/ Contains(t, <<"d", "o", "u", "b", "l", "e">>)
             \/ Contains(t, <<"f", "l", "o", "a", "t">>)
             \/ Contains(t, <<"n", "u", "m", "e", "r", "i", "c">>)
             \/ Contains(t, <<"d", "e", "c", "i", "m", "a", "l">>) -> GoType.float64
          [] \/ Contains(t, <<"t", "i", "m", "e", "s", "t", "a", "m", "p">>)
             \/ Contains(t, <<"d", "a", "t", "e">>) -> GoType.time
          [] Contains(t, <<"j", "s", "o", "n">>) -> GoType.bytes
          [] OTHER -> GoType.any

\* sqlTypeToGo(dbType): the first case of the switch that holds.
sqlTypeToGo(dbType) ==
    LET t == ToLower(TrimSpace(dbType))
    IN  CASE HasPrefix(t, <<"i", "n", "t">>) -> GoType.int32
          [] HasPrefix(t, <<"b", "i", "g", "i", "n", "t">>) -> GoType.int64
          [] HasPrefix(t, <<"s", "m", "a", "l", "l", "i", "n", "t">>) -> GoType.int16
          [] t = <<"s", "e", "r", "i", "a", "l">> -> GoType.int32
          [] t = <<"b", "i", "g", "s", "e", "r", "i", "a", "l">> -> GoType.int64
          [] \/ Contains(t, <<"c", "h", "a", "r">>)
             \/ Contains(t, <<"t", "e", "x", "t">>)
             \/ Contains(t, <<"u", "u", "i", "d">>) -> GoType.string
          [] HasPrefix(t, <<"b", "o", "o", "l">>) -> GoType.bool
          [] \/ Contains(t, <<"d", "o", "u", "b", "l", "e">>)
             \/ Contains(t, <<"f", "l", "o", "a", "t">>)
             \/ Contains(t, <<"n", "u", "m", "e", "r", "i", "c">>)
             \/ Contains(t, <<"d", "e", "c", "i", "m", "a", "l">>) -> GoType.float64
          [] \/ Contains(t, <<"t", "i", "m", "e", "s", "t", "a", "m", "p">>)
             \/ Contains(t, <<"d", "a", "t", "e">>) -> GoType.time
          [] Contains(t, <<"j", "s", "o", "n">>) -> GoType.bytes
          [] OTHER -> GoType.any

\* goTypeForColumn wrapping every nullable column.
goTypeForColumnNoSliceCheck(col) ==
    LET base == sqlTypeToGo(col.DBType)
    IN  IF ~col.Nullable THEN base ELSE <<"*">> \o base

\* goTypeForColumn(col)
goTypeForColumn(col) ==
    LET base == sqlTypeToGo(col.DBType)
    IN  IF ~col.Nullable THEN base
        ELSE IF HasPrefix(base, <<"[", "]">>) THEN base
        ELSE <<"*">> \o base

\* The declared types of the model, lower case and without white space around
\* them: those of the switch, some with a digit or a second type name after
\* them, and some of no case of the switch.
DeclaredTypes ==
    { <<"i", "n", "t">>, <<"i", "n", "t", "4">>, <<"i", "n", "t", "e", "g", "e", "r">>,
      <<"i", "n", "t", "e", "r", "v", "a", "l">>,
      <<"i", "n", "t", "t", "e", "x", "t">>, <<"i", "n", "t", "c", "h", "a", "r">>,
      <<"b", "i", "g", "i", "n", "t">>,
      <<"b", "i", "g", "i", "n", "t", "j", "s", "o", "n">>,
      <<"s", "m", "a", "l", "l", "i", "n", "t">>,
      <<"s", "m", "a", "l", "l", "i", "n", "t", "d", "a", "t", "e">>,
      <<"s", "e", "r", "i", "a", "l">>, <<"s", "e", "r", "i", "a", "l", "4">>,
      <<"b", "i", "g", "s", "e", "r", "i", "a", "l">>, <<"c", "h", "a", "r">>,
      <<"t", "e", "x", "t">>, <<"u", "u", "i", "d">>, <<"b", "o", "o", "l">>,
      <<"b", "o", "o", "l", "e", "a", "n">>, <<"d", "o", "u", "b", "l", "e">>,
      <<"f", "l", "o", "a", "t">>, <<"n", "u", "m", "e", "r", "i", "c">>,
      <<"d", "e", "c", "i", "m", "a", "l">>,
      <<"t", "i", "m", "e", "s", "t", "a", "m", "p">>, <<"d", "a", "t", "e">>,
      <<"j", "s", "o", "n">>, <<"j", "s", "o", "n", "b">>,
      <<"t", "i", "n", "y", "i", "n", "t">>, <<"p", "o", "i", "n", "t">>,
      <<"x", "m", "l">>, <<>> }

\* The columns of the model: a declared type written in lower case, with
\* the capitals G, I, N, T or with a capital first letter, with or without
\* white space around it; base is the declared type before that.
TableColumns ==
    LET upper(c) ==
          CASE c = "g" -> "G" [] c = "i" -> "I" [] c = "n" -> "N" [] c = "t" -> "T"
            [] OTHER -> c
        Spellings(b) ==
          { b, [i \in 1..Len(b) |-> upper(b[i])],
            [i \in 1..Len(b) |-> IF i = 1 THEN upper(b[i]) ELSE b[i]] }
        Paddings(s) == { s, <<" ">> \o s, s \o <<" ", "\t">>, <<"\n", " ">> \o s \o <<" ">> }
    IN  UNION { { [base |-> b, DBType |-> d, Nullable |-> n] :
                    d \in UNION { Paddings(s) : s \in Spellings(b) }, n \in BOOLEAN } :
                b \in DeclaredTypes }

NotMapped == [base |-> <<>>, goType |-> <<>>]

IdleTypes ==
    /\ column = [base |-> <<>>, DBType |-> <<>>, Nullable |-> FALSE]
    /\ typePc = "idle"
    /\ typeOut = NotMapped

\* The calls sqlTypeToGo(column.DBType) and goTypeForColumn(column).
TypeCall ==
    /\ typePc = "call"
    /\ typeOut' = [base |-> sqlTypeToGo(column.DBType), goType |-> goTypeForColumn(column)]
    /\ typePc' = "done"
    /\ UNCHANGED <<column, migVars, loadVars, parseVars, resolveVars, runVars>>

IdleLoad ==
    /\ files = <<>>
    /\ loadPc = "idle"
    /\ loadOut = NotLoaded

\* The call LoadSchemaMigrations(files).
LoadCall ==
    /\ loadPc = "call"
    /\ loadOut' = LoadSchemaMigrations(files)
    /\ loadPc' = "done"
    /\ UNCHANGED <<files, migVars, parseVars, resolveVars, runVars, typeVars>>

InitLoad ==
    /\ conc = FALSE
    /\ InitMigrate
    /\ IdleParse
    /\ IdleResolve
    /\ IdleRun
    /\ IdleTypes
    /\ files \in SeqsUpTo(Paths, MaxFiles)
    /\ loadPc = "call"
    /\ loadOut = NotLoaded

NextLoad == LoadCall

SpecLoad == InitLoad /\ [][NextLoad]_vars

\* ParseFile applied to every unit of the model.
InitParse ==
    /\ conc = FALSE
    /\ InitMigrate
    /\ IdleLoad
    /\ \E u \in Units :
         /\ unit = u
         /\ procFiles = (ParsePath :> u.file)
    /\ parseArg = ParsePath
    /\ parsePc = "call"
    /\ parseOut = NotParsed
    /\ IdleResolve
    /\ IdleRun
    /\ IdleTypes

SpecParse == InitParse /\ [][ParseCall]_vars

\* ResolveFiles applied to every list of at most MaxInputs inputs.
InitResolve ==
    /\ conc = FALSE
    /\ InitMigrate
    /\ IdleLoad
    /\ IdleParse
    /\ inputs \in SeqsUpTo(ResolveInputs, MaxInputs)
    /\ resolvePc = "call"
    /\ resolveOut = NotResolved
    /\ IdleRun
    /\ IdleTypes

SpecResolve == InitResolve /\ [][ResolveCall]_vars

\* Run with every option of the model, on a database whose ledger is empty
\* or holds version 1 from an earlier run.
InitRun ==
    /\ conc = FALSE
    /\ \/ /\ tableExists = FALSE
          /\ ledger = {}
          /\ bodyLog = <<>>
       \/ /\ tableExists = TRUE
          /\ ledger = {[version |-> 1, name |-> DefaultName(1)]}
          /\ bodyLog = <<1>>
    /\ runs = 0
    /\ lastRun = NoRun
    /\ pc = [p \in Procs |-> "idle"]
    /\ migs = [p \in Procs |-> <<>>]
    /\ applied = [p \in Procs |-> {}]
    /\ idx = [p \in Procs |-> 0]
    /\ tx = [p \in Procs |-> NoTx]
    /\ ret = [p \in Procs |-> NoRet]
    /\ trace = [p \in Procs |-> <<>>]
    /\ startLedger = [p \in Procs |-> {}]
    /\ txLedger = [p \in Procs |-> {}]
    /\ prevRun = [p \in Procs |-> NoRun]
    /\ IdleLoad
    /\ IdleParse
    /\ IdleResolve
    /\ opts \in PipelineOptions
    /\ runPc = "start"
    /\ sqlFiles = <<>>
    /\ procs = <<>>
    /\ opened = <<>>
    /\ migFiles = <<>>
    /\ schemaMigrations = <<>>
    /\ conn = NoConn(opts)
    /\ procIdx = 0
    /\ procLog = <<>>
    /\ procRet = NoRet
    /\ generatedFiles = <<>>
    /\ disk = {}
    /\ introspected = FALSE
    /\ runOut = NotRun
    /\ IdleTypes

NextRun ==
    \/ RunResolve
    \/ RunParse
    \/ RunResolveMigrations
    \/ RunLoad
    \/ prepareDB
    \/ RunMigrate
    \/ ensureTable("A")
    \/ appliedVersions("A")
    \/ MigrateLoop("A")
    \/ BeginTx("A")
    \/ ExecBody("A")
    \/ InsertLedger("A")
    \/ Commit("A")
    \/ runMigrations
    \/ MigratorMigrate
    \/ RunGenerate
    \/ RunSchemaModels

SpecRun == InitRun /\ [][NextRun]_vars

\* The type mapping applied to every column of the model.
InitTypes ==
    /\ conc = FALSE
    /\ InitMigrate
    /\ IdleLoad
    /\ IdleParse
    /\ IdleResolve
    /\ IdleRun
    /\ column \in TableColumns
    /\ typePc = "call"
    /\ typeOut = NotMapped

SpecTypes == InitTypes /\ [][TypeCall]_vars

Init ==
    /\ conc = FALSE
    /\ InitMigrate
    /\ IdleLoad
    /\ IdleParse
    /\ IdleResolve
    /\ IdleRun
    /\ IdleTypes

Next ==
    \E p \in Procs :
       \/ MigrateCall(p)
       \/ ensureTable(p)
       \/ appliedVersions(p)
       \/ MigrateLoop(p)
       \/ BeginTx(p)
       \/ ExecBody(p)
       \/ InsertLedger(p)
       \/ Commit(p)

Spec == Init /\ [][Next]_vars

\* Migrate called again and again with one list, fixed from the start.
InitFixed ==
    /\ conc = FALSE
    /\ tableExists = FALSE
    /\ ledger = {}
    /\ bodyLog = <<>>
    /\ runs = 0
    /\ lastRun = NoRun
    /\ pc = [p \in Procs |-> "idle"]
    /\ \E ms \in MigrationLists : migs = [p \in Procs |-> ms]
    /\ applied = [p \in Procs |-> {}]
    /\ idx = [p \in Procs |-> 0]
    /\ tx = [p \in Procs |-> NoTx]
    /\ ret = [p \in Procs |-> NoRet]
    /\ trace = [p \in Procs |-> <<>>]
    /\ startLedger = [p \in Procs |-> {}]
    /\ txLedger = [p \in Procs |-> {}]
    /\ prevRun = [p \in Procs |-> NoRun]
    /\ IdleLoad
    /\ IdleParse
    /\ IdleResolve
    /\ IdleRun
    /\ IdleTypes

\* A call of Migrate with the list of the calls before it.
MigrateAgain(p) ==
    /\ pc[p] \in {"idle", "done"}
    /\ conc \/ (p = "A" /\ \A q \in Procs : pc[q] \in {"idle", "done"})
    /\ runs < MaxRuns
    /\ EnterMigrate(p, migs[p])
    /\ UNCHANGED nonMigVars

SpecFixed ==
    InitFixed /\ [][\E p \in Procs :
                       \/ MigrateAgain(p)
                       \/ ensureTable(p)
                       \/ appliedVersions(p)
                       \/ MigrateLoop(p)
                       \/ BeginTx(p)
                       \/ ExecBody(p)
                       \/ InsertLedger(p)
                       \/ Commit(p)]_vars

\* Two invocations of Migrate that may overlap on one database.
InitConc ==
    /\ conc = TRUE
    /\ InitMigrate
    /\ IdleLoad
    /\ IdleParse
    /\ IdleResolve
    /\ IdleRun
    /\ IdleTypes

\* The one call of Migrate of each of the two invocations.
ConcurrentCall(p) ==
    /\ conc
    /\ pc[p] = "idle"
    /\ \E ms \in MigrationLists :
         /\ \A i \in 1..Len(ms) : ms[i].Version <= MaxConcVersion
         /\ EnterMigrate(p, ms)
    /\ UNCHANGED nonMigVars

SpecConc ==
    InitConc /\ [][\E p \in Procs :
                      \/ ConcurrentCall(p)
                      \/ ensureTable(p)
                      \/ appliedVersions(p)
                      \/ MigrateLoop(p)
                      \/ BeginTx(p)
                      \/ ExecBody(p)
                      \/ InsertLedger(p)
                      \/ Commit(p)]_vars

(***************************************************************************)
(* Properties of SchemaMigrator.Migrate.                                   *)
(***************************************************************************)

Failed(p, step) == pc[p] = "done" /\ ret[p].kind = "error" /\ ret[p].step = step

\* The call of p repeats the list of the call before it, which returned nil.
Rerun(p) ==
    /\ pc[p] # "idle"
    /\ Len(migs[p]) > 0
    /\ prevRun[p].ret = Nil
    /\ prevRun[p].migs = migs[p]

\* C1: a Migrate call that repeats the list of a call that returned nil
\* opens no transaction, executes no body and leaves the ledger rows and
\* the committed bodies as they were, at every step of the call.
C1_RerunIsNoOp ==
    \A p \in Procs :
       Rerun(p) => /\ trace[p] = <<>>
                   /\ ~tx[p].open
                   /\ ledger = startLedger[p]
                   /\ pc[p] \notin {"beginTx", "execBody", "insertLedger", "commit"}

C1_Witness ==
    \E p \in Procs :
       /\ Rerun(p)
       /\ pc[p] = "done"
       /\ ret[p] = Nil
       /\ Len(migs[p]) >= 2
       /\ LedgerVersions(ledger) = { migs[p][i].Version : i \in 1..Len(migs[p]) }

\* C2: when Migrate returned the error of a failed body, the transaction
\* is rolled back and closed, the ledger is what it was when the
\* transaction began and holds no row for the version of that migration.
C2_BodyFailureLeavesLedger ==
    \A p \in Procs :
       Failed(p, "exec") =>
          /\ ~tx[p].open
          /\ trace[p][Len(trace[p])] = <<"rollback", Cur(p).Version>>
          /\ ledger = txLedger[p]
          /\ Cur(p).Version \notin LedgerVersions(ledger)

C2_Witness ==
    \E p \in Procs :
       /\ Failed(p, "exec")
       /\ idx[p] = 2
       /\ ledger # {}
       /\ ledger # startLedger[p]

\* C3: once a step of applying a migration failed, Migrate has returned
\* the error of that step, and the call issued nothing after the failure
\* but the Rollback of the failed migration.
C3_FailFast ==
    \A p \in Procs : \A k \in 1..Len(trace[p]) :
       trace[p][k][1] = "fail" =>
          /\ Failed(p, trace[p][k][2])
          /\ trace[p][k][3] = Cur(p).Version
          /\ \A j \in (k + 1)..Len(trace[p]) :
                trace[p][j] = <<"rollback", trace[p][k][3]>>

C3_Witness ==
    \E p \in Procs :
       /\ pc[p] = "done"
       /\ ret[p].kind = "error"
       /\ ret[p].step \in {"begin", "exec", "insert", "commit"}
       /\ idx[p] < Len(migs[p])
       /\ migs[p][idx[p] + 1].Version \notin applied[p]

Committed(v) == \E i \in 1..Len(bodyLog) : bodyLog[i] = v

\* C4: in every state, also after a failed INSERT or a failed Commit, a
\* version has a committed body exactly when the ledger has a row for it.
C4_BodyAndRowTogether ==
    \A v \in Versions : Committed(v) <=> v \in LedgerVersions(ledger)

C4_Witness ==
    \E p \in Procs :
       /\ Failed(p, "commit")
       /\ idx[p] >= 2
       /\ Committed(migs[p][1].Version)
       /\ ~Committed(Cur(p).Version)

RECURSIVE ExpectedTrace(_, _)
\* The statements of a run without failure over the list ms when the
\* ledger holds the versions L.
ExpectedTrace(ms, L) ==
    IF ms = <<>> THEN <<>>
    ELSE (IF Head(ms).Version \in L THEN <<>>
          ELSE << <<"begin", Head(ms).Version>>,
                  <<"exec", Head(ms).Version>>,
                  <<"insert", Head(ms).Version, Head(ms).Name>>,
                  <<"commit", Head(ms).Version>> >>)
         \o ExpectedTrace(Tail(ms), L)

PendingRows(ms, L) ==
    { [version |-> ms[i].Version, name |-> ms[i].Name] :
         i \in { j \in 1..Len(ms) : ms[j].Version \notin L } }

\* C5: a Migrate call that returned nil issued, for exactly the migrations
\* whose version was not in the ledger at the start and in list order,
\* begin, body, insert (version, name), commit, once each; it issued
\* nothing for the others, and the ledger gained exactly those rows.
C5_AppliesExactlyPending ==
    \A p \in Procs :
       (pc[p] = "done" /\ ret[p] = Nil) =>
          /\ trace[p] = ExpectedTrace(migs[p], LedgerVersions(startLedger[p]))
          /\ ledger = startLedger[p]
                        \cup PendingRows(migs[p], LedgerVersions(startLedger[p]))

C5_Witness ==
    \E p \in Procs :
       /\ pc[p] = "done"
       /\ ret[p] = Nil
       /\ Len(migs[p]) = 3
       /\ migs[p][1].Version \in LedgerVersions(startLedger[p])
       /\ Len(trace[p]) = 8

\* C6: over all runs the body of a version is committed at most once.
C6_BodyCommittedAtMostOnce ==
    \A v \in Versions :
       Cardinality({ i \in 1..Len(bodyLog) : bodyLog[i] = v }) <= 1

C6_Witness ==
    \E p \in Procs :
       /\ pc[p] = "done"
       /\ ret[p] = Nil
       /\ prevRun[p].ret.kind = "error"
       /\ prevRun[p].ret.step \in {"exec", "insert", "commit"}
       /\ prevRun[p].migs = migs[p]
       /\ startLedger[p] # {}
       /\ Len(trace[p]) > 0
       /\ Len(bodyLog) = Len(migs[p])

\* C10: every error Migrate returns for a failed step of applying a
\* migration carries the File of that migration.
C10_ErrorNamesMigration ==
    \A p \in Procs :
       (pc[p] = "done" /\ ret[p].kind = "error"
          /\ ret[p].step \in {"begin", "exec", "insert", "commit"})
       => ret[p].file = Cur(p).File

(***************************************************************************)
(* Properties of LoadSchemaMigrations.                                     *)
(***************************************************************************)

Loaded == loadPc = "done"

Parsed(i) == parseSchemaMigration(files[i])

Valid(i) == Parsed(i).err = NoError

\* The version the name of files[i] leads with, when the name has one.
HasVersion(i) == FindStringSubmatch(Base(files[i])).ok

LeadingVersion(i) == ParseInt(FindStringSubmatch(Base(files[i])).digits)

SameVersion(i, j) ==
    HasVersion(i) /\ HasVersion(j) /\ LeadingVersion(i) = LeadingVersion(j)

\* The error text holds the path of files[i] or its base name.
Mentions(err, i) ==
    \E k \in 1..Len(err.names) : err.names[k] \in {files[i], Base(files[i])}

\* C7: when every file is valid and the versions are pairwise distinct,
\* whatever the order of the files, the load returns no error and one
\* migration per file, in strictly ascending order of version.
C7_LoadSortsByVersion ==
    (/\ Loaded
     /\ Len(files) > 0
     /\ \A i \in 1..Len(files) : Valid(i)
     /\ \A i, j \in 1..Len(files) : i # j => Parsed(i).mig.Version # Parsed(j).mig.Version)
    => /\ loadOut.err = NoError
       /\ Len(loadOut.migs) = Len(files)
       /\ { loadOut.migs[k] : k \in 1..Len(loadOut.migs) }
             = { Parsed(i).mig : i \in 1..Len(files) }
       /\ \A k \in 1..(Len(loadOut.migs) - 1) :
             loadOut.migs[k].Version < loadOut.migs[k + 1].Version

C7_Witness ==
    /\ Loaded
    /\ Len(files) = 3
    /\ loadOut.err = NoError
    /\ Parsed(1).mig.Version = 10
    /\ Parsed(2).mig.Version = 9
    /\ Parsed(3).mig.Version = 2

DuplicatePair(i, j) == i < j /\ SameVersion(i, j)

\* C8 as stated: two files with the same leading version make the load
\* fail without migrations, with an error that holds both files of such a
\* pair.  Stated here for pairs of files that are both valid on their own.
C8_DuplicateNamesBoth ==
    \A i, j \in 1..Len(files) :
       (Loaded /\ DuplicatePair(i, j) /\ Valid(i) /\ Valid(j)) =>
          /\ loadOut.err # NoError
          /\ loadOut.migs = <<>>
          /\ \E a, b \in 1..Len(files) :
                /\ DuplicatePair(a, b)
                /\ Mentions(loadOut.err, a)
                /\ Mentions(loadOut.err, b)

\* C8 amended: two files with the same leading version make the load fail
\* without migrations; when the second of them is files[j], every file up
\* to files[j] is valid and no version repeats before files[j], the error
\* is the duplicate error with the version, the first file that claimed it
\* and files[j], in this order.
C8_DuplicateFailsLoad ==
    \A i, j \in 1..Len(files) :
       (Loaded /\ DuplicatePair(i, j)) =>
          /\ loadOut.err # NoError
          /\ loadOut.migs = <<>>
          /\ (/\ \A k \in 1..j : Valid(k)
              /\ \A a, b \in 1..(j - 1) : a # b => ~SameVersion(a, b))
             => loadOut.err =
                   LoadError("duplicate schema migration version",
                             LeadingVersion(j), <<files[i], files[j]>>)

C8_Witness ==
    /\ Loaded
    /\ Len(files) = 3
    /\ Valid(1) /\ Valid(2) /\ Valid(3)
    /\ ~SameVersion(1, 2)
    /\ SameVersion(1, 3)
    /\ FindStringSubmatch(Base(files[1])).digits
          # FindStringSubmatch(Base(files[3])).digits
    /\ loadOut.err.kind = "duplicate schema migration version"

\* files[i] has one of the input errors: a name that does not match, a
\* version that is not positive, a body that is empty once trimmed.
InputError(i) ==
    \/ ~HasVersion(i)
    \/ LeadingVersion(i) <= 0
    \/ FileSystem[files[i]] # Unreadable /\ TrimSpace(FileSystem[files[i]]) = <<>>

\* C9 as stated: a file with an input error makes the load fail without
\* migrations, with an error that names this file.  Stated here for a list
\* in which it is the only file with an input error.
C9_InputErrorNamesFile ==
    \A i \in 1..Len(files) :
       (Loaded /\ InputError(i) /\ \A k \in 1..Len(files) : k # i => ~InputError(k)) =>
          /\ loadOut.err # NoError
          /\ loadOut.migs = <<>>
          /\ Mentions(loadOut.err, i)

\* C9 amended: a file with an input error makes the load fail without
\* migrations, whatever the other files are; the error is the error of
\* this file, and names it, when every file before it is valid and no two
\* files before it have the same version.
C9_InputErrorFailsLoad ==
    \A i \in 1..Len(files) :
       (Loaded /\ InputError(i)) =>
          /\ loadOut.err # NoError
          /\ loadOut.migs = <<>>
          /\ (/\ \A k \in 1..(i - 1) : Valid(k)
              /\ \A a, b \in 1..(i - 1) : a # b => ~SameVersion(a, b))
             => /\ loadOut.err = Parsed(i).err
                /\ Mentions(loadOut.err, i)

C9_Witness ==
    /\ Loaded
    /\ Len(files) = 3
    /\ Valid(1) /\ Valid(2)
    /\ ~SameVersion(1, 2)
    /\ FileSystem[files[3]] = <<" ">>
    /\ loadOut.err.kind = "migration is empty"
    /\ loadOut.migs = <<>>

(***************************************************************************)
(* Properties of Parser.ParseFile.                                         *)
(***************************************************************************)

ParsedUnit == parsePc = "done"

ParseOk == ParsedUnit /\ parseOut.err = NoParseError

MissingReturns == "returning procedure must declare -- returns columns"

\* C19: ParseFile returns a Procedure only if it passes validation (name
\* non-empty, kind one of :one/:many/:exec, result columns non-empty unless
\* the kind is :exec, body non-empty after trimming).  A unit declaring :one
\* or :many with zero result columns always fails with an error and no
\* Procedure; a unit declaring :exec never fails for lacking result columns.
C19_ParsedOnlyIfValid ==
    ParsedUnit =>
      /\ parseOut.err = NoParseError =>
           /\ parseOut.proc # NoProcedure
           /\ parseOut.proc.Name # <<>>
           /\ parseOut.proc.Kind \in {ReturnOne, ReturnMany, ReturnExec}
           /\ parseOut.proc.Kind # ReturnExec => parseOut.proc.Returns # <<>>
           /\ parseOut.proc.SQL # <<>>
           /\ parseOut.proc.SQL = TrimSpace(parseOut.proc.SQL)
      /\ parseOut.err # NoParseError => parseOut.proc = NoProcedure
      /\ unit.decl.Kind \in {ReturnOne, ReturnMany} /\ unit.decl.Returns = <<>> =>
           /\ parseOut.err # NoParseError
           /\ parseOut.proc = NoProcedure
      /\ unit.decl.Kind = ReturnExec => parseOut.err.reason # MissingReturns

\* A unit with a name, a body and the kind :one declares no result column
\* and is refused for it.
C19_Witness ==
    /\ ParsedUnit
    /\ unit.wellFormed
    /\ unit.decl.Kind = ReturnOne
    /\ unit.decl.Returns = <<>>
    /\ unit.decl.Body # <<>>
    /\ parseOut.proc = NoProcedure
    /\ parseOut.err.reason = MissingReturns

\* The declared (name, type) pairs with the types as they are stored.
Stored(list) ==
    [i \in 1..Len(list) |-> [Name |-> list[i].Name, DBType |-> ToLower(list[i].DBType)]]

RECURSIVE Concat(_)
Concat(lists) == IF lists = <<>> THEN <<>> ELSE Head(lists) \o Concat(Tail(lists))

Range(f) == { f[i] : i \in DOMAIN f }

\* C20: for every valid procedure unit, ParseFile returns the name and kind
\* of the name header, Params equal to the param headers in file order and
\* Returns equal to the concatenation of the columns of the returns headers
\* in file order; the body contains none of the header comment lines.
C20_ParseReflectsHeaders ==
    ParseOk /\ unit.wellFormed =>
      /\ parseOut.proc.Name = unit.decl.Name
      /\ parseOut.proc.Kind = unit.decl.Kind
      /\ parseOut.proc.Params = Stored(unit.decl.Params)
      /\ parseOut.proc.Returns = Stored(Concat(unit.decl.Returns))
      /\ Range(Split(parseOut.proc.SQL, "\n")) \cap Range(Headers(unit.decl)) = {}

\* A unit with two param headers, two returns headers of three columns in
\* all and a body of several lines was parsed.
C20_Witness ==
    /\ ParseOk
    /\ unit.wellFormed
    /\ Len(unit.decl.Params) = 2
    /\ unit.decl.Params[1] # unit.decl.Params[2]
    /\ Len(unit.decl.Returns) = 2
    /\ Len(parseOut.proc.Returns) = 3
    /\ Len(unit.decl.Body) > 1

(***************************************************************************)
(* Properties of ResolveFiles.                                             *)
(***************************************************************************)

Resolved == resolvePc = "done" /\ resolveOut.err = NoResolveError

\* C18: ResolveFiles returns a list in which no file path occurs twice, also
\* when the same file is reachable through several inputs (a directory
\* together with a file inside it, or the same input listed twice).
C18_ResolvedOnce ==
    Resolved =>
      \A i, j \in 1..Len(resolveOut.files) :
         resolveOut.files[i] = resolveOut.files[j] => i = j

(***************************************************************************)
(* Properties of Run, runMigrations and Migrator.Migrate.                  *)
(***************************************************************************)

RunDone == runPc = "done"

RunFailed(text) == RunDone /\ runOut.err.text = text

\* The source files of procs[1..n], in input order.
ProcFiles(n) == [i \in 1..n |-> procs[i].File]

\* C11: Migrator.Migrate executes the procedure bodies one at a time in
\* input order; at the first failing body it returns an error naming that
\* procedure's source file, executes no later body and does not undo the
\* bodies already executed.
C11_ProceduresInOrder ==
    /\ runPc = "procMigrate" => procLog = ProcFiles(procIdx - 1)
    /\ procRet = Nil => procLog = ProcFiles(Len(procs))
    /\ procRet.kind = "error" =>
         /\ procIdx \in 1..Len(procs)
         /\ procRet.file = procs[procIdx].File
         /\ procLog = ProcFiles(procIdx - 1)

\* The second of two procedures failed: the first stays executed.
C11_Witness ==
    /\ procRet.kind = "error"
    /\ Len(procs) = 2
    /\ procIdx = 2
    /\ procLog = <<procs[1].File>>
    /\ procRet.file = procs[2].File

\* C12: in Run with migrations enabled, every pending schema migration is
\* committed before the first procedure body is executed; if any schema
\* migration fails, no procedure body is executed.
C12_SchemaBeforeProcedures ==
    /\ procLog # <<>> =>
         /\ \A i \in 1..Len(schemaMigrations) :
               schemaMigrations[i].Version \in LedgerVersions(ledger)
         /\ schemaMigrations # <<>> => ret["A"] = Nil
    /\ ret["A"].kind = "error" => procLog = <<>> /\ procRet = NoRet

\* Two schema migrations were pending, both were committed in this run, and
\* a procedure body has been executed after them.
C12_Witness ==
    /\ procLog # <<>>
    /\ Len(schemaMigrations) = 2
    /\ startLedger["A"] = {}
    /\ Len(bodyLog) = 2
    /\ ret["A"] = Nil

InputErrors ==
    { "provide SQL inputs, migrations, or schema model options", "resolve SQL inputs",
      "parse SQL files", "resolve migration inputs", "load migrations" }

NoStatement == runs = 0 /\ trace["A"] = <<>> /\ procLog = <<>> /\ ~introspected

\* C13: if any stage of Run fails (resolve, parse, load migrations, connect,
\* apply schema migrations, apply procedures, generate), Run returns an
\* error with a nil result and no later stage performs any effect: a parse
\* or migration-load failure opens no connection and executes no statement,
\* and a migration or procedure failure writes no generated file and runs
\* no introspection.
C13_FailureStopsRun ==
    RunDone /\ runOut.err.text # "nil" =>
      /\ runOut.res = NilResult
      /\ runOut.err.text \in InputErrors =>
           conn.db = "nil" /\ conn.owned = "none" /\ NoStatement /\ disk = {}
      /\ runOut.err.text \in {"open db", "ping db"} => NoStatement /\ disk = {}
      /\ runOut.err.text \in {"schema migrations", "procedure migrations"} =>
           disk = {} /\ ~introspected
      /\ runOut.err.text = "generate Go code" =>
           ~introspected /\ JoinPath(OutputDir, "schema_models.go") \notin disk

\* A procedure body failed in a run that was to generate code and schema
\* models: nothing was written, nothing introspected.
C13_Witness ==
    /\ RunFailed("procedure migrations")
    /\ ~opts.SkipGenerate
    /\ opts.SchemaModels
    /\ procLog # <<>>
    /\ disk = {}

\* C14: Run never closes a DB handle supplied by the caller; a connection
\* that Run opens from DBURL is closed by the time Run returns, on every
\* path (success, ping failure, missing-DB checks, migration failure,
\* generation failure, introspection failure).
C14_ConnectionClosed ==
    /\ conn.caller # "closed"
    /\ opts.DB => conn.owned = "none"
    /\ RunDone => conn.owned # "open"

\* Run opened a connection, the introspection failed, the connection is
\* closed.
C14_Witness ==
    /\ RunFailed("introspect schema")
    /\ conn.db = "owned"
    /\ conn.owned = "closed"

\* C15: Run returns an error whenever a DB-dependent stage is enabled but
\* neither DB nor DBURL is provided: with SkipMigrate false it fails before
\* writing any generated file, and with SchemaModels set it fails instead
\* of producing schema models.
C15_MissingDBFails ==
    RunDone /\ ~opts.DB /\ ~opts.DBURL /\ (~opts.SkipMigrate \/ opts.SchemaModels) =>
      /\ runOut.err.text # "nil"
      /\ runOut.res = NilResult
      /\ ~opts.SkipMigrate => disk = {}
      /\ opts.SchemaModels =>
           ~introspected /\ JoinPath(OutputDir, "schema_models.go") \notin disk

\* Procedures were parsed, migrations are enabled, generation too, and no
\* database was given.
C15_Witness ==
    /\ RunFailed("DB or DBURL must be provided when migrations are enabled")
    /\ ~opts.SkipGenerate
    /\ Len(procs) = 2
    /\ disk = {}

\* The three generated files of Run, in the order of its result.
ThreeFiles == [i \in 1..3 |-> JoinPath(OutputDir, GeneratedNames[i])]

GenerateOnly == opts.SkipMigrate /\ ~opts.SkipGenerate /\ ~opts.DB /\ ~opts.DBURL

\* The SQL inputs hold at least one valid procedure unit.
SomeValidUnit == \E i \in 1..Len(sqlFiles) : ParseFile(sqlFiles[i]).err = NoParseError

\* The SQL inputs hold at least one procedure unit, and valid ones only.
AllValidUnits ==
    /\ sqlFiles # <<>>
    /\ \A i \in 1..Len(sqlFiles) : ParseFile(sqlFiles[i]).err = NoParseError

\* The migration inputs, if any, resolve and load.
MigrationsLoad ==
    opts.MigrationInputs # <<>> =>
      migFiles # <<>> /\ ~RunFailed("load migrations")

\* C16 as stated: with SkipMigrate true, SkipGenerate false and at least one
\* valid procedure unit, Run succeeds without any DB or DBURL and its result
\* lists exactly three generated files (db.go, models.go, queries.go under
\* OutputDir), each of which exists when Run returns.
C16_GenerateOnlySucceeds ==
    RunDone /\ GenerateOnly /\ SomeValidUnit =>
      /\ runOut.err = NoRunError
      /\ runOut.res.GeneratedFiles = ThreeFiles
      /\ \A i \in 1..3 : ThreeFiles[i] \in disk

\* C16, amended: with SkipMigrate true, SkipGenerate false, SchemaModels
\* unset, procedure inputs whose units are all valid (at least one) and
\* migration inputs, if any, that load, Run needs no DB or DBURL: unless
\* writing the output fails, it succeeds and its result lists exactly three
\* generated files (db.go, models.go, queries.go under OutputDir), each of
\* which exists when Run returns.
C16_GenerateOnly ==
    RunDone /\ GenerateOnly /\ AllValidUnits /\ ~opts.SchemaModels /\ MigrationsLoad =>
      /\ runOut.err.text \in {"nil", "generate Go code"}
      /\ runOut.err = NoRunError =>
           /\ ~runOut.res.nil
           /\ runOut.res.GeneratedFiles = ThreeFiles
           /\ \A i \in 1..3 : ThreeFiles[i] \in disk

\* A run without database that generated the three files.
C16_Witness ==
    /\ RunDone
    /\ GenerateOnly
    /\ AllValidUnits
    /\ ~opts.SchemaModels
    /\ opts.OutputDir = "out"
    /\ runOut.err = NoRunError
    /\ runOut.res.GeneratedFiles = ThreeFiles
    /\ disk = {ThreeFiles[1], ThreeFiles[2], ThreeFiles[3]}

\* C17: with SkipMigrate true, Run executes no migration body, no ledger
\* statement (creation, applied-versions query, insert) and no procedure
\* body, even when a DB handle and migration inputs are supplied.
C17_SkipMigrateTouchesNothing ==
    opts.SkipMigrate =>
      /\ runs = 0
      /\ pc["A"] = "idle"
      /\ trace["A"] = <<>>
      /\ procLog = <<>> /\ procRet = NoRet
      /\ tableExists = (ledger # {})
      /\ bodyLog = (IF ledger = {} THEN <<>> ELSE <<1>>)
      /\ ledger \subseteq {[version |-> 1, name |-> DefaultName(1)]}

\* A run with SkipMigrate, a DB handle, migrations and procedures succeeded
\* on an empty database.
C17_Witness ==
    /\ RunDone
    /\ opts.SkipMigrate
    /\ opts.DB
    /\ Len(schemaMigrations) = 2
    /\ Len(procs) = 2
    /\ runOut.err = NoRunError
    /\ ~tableExists

(***************************************************************************)
(* Properties of Parser.ParseFiles.                                        *)
(***************************************************************************)

\* ParseFiles is running or has just returned to Run.
InParseFiles == runPc \in {"parse", "resolveMigrations"} \/ RunFailed("parse SQL files")

\* C21: ParseFiles is all-or-nothing: it parses the units in input order,
\* stops at the first unit that fails without reading any later unit, and
\* then returns an error with no procedures, not even those parsed
\* successfully before the failure.
C21_ParseFilesAllOrNothing ==
    InParseFiles =>
      LET n == Len(opened)
          failed == n > 0 /\ ParseFile(opened[n]).err # NoParseError
      IN  /\ n <= Len(sqlFiles)
          /\ \A i \in 1..n : opened[i] = sqlFiles[i]
          /\ \A i \in 1..(n - 1) : ParseFile(opened[i]).err = NoParseError
          /\ IF failed
               THEN /\ RunFailed("parse SQL files")
                    /\ runOut.err.file = opened[n]
                    /\ runOut.res = NilResult
                    /\ procs = <<>>
               ELSE /\ ~RunFailed("parse SQL files")
                    /\ procs = [i \in 1..n |-> ParseFile(opened[i]).proc]

\* ParseFiles failed at the second of three units: the first was parsed,
\* the third never opened.
C21_Witness ==
    /\ RunFailed("parse SQL files")
    /\ Len(sqlFiles) = 3
    /\ Len(opened) = 2
    /\ ParseFile(opened[1]).err = NoParseError
    /\ procs = <<>>

(***************************************************************************)
(* Properties of sqlTypeToGo and goTypeForColumn.                          *)
(***************************************************************************)

Mapped == typePc = "done"

\* The declared types of the model that no case of the switch takes.
Unrecognized ==
    { <<"s", "e", "r", "i", "a", "l", "4">>, <<"t", "i", "n", "y", "i", "n", "t">>,
      <<"p", "o", "i", "n", "t">>, <<"x", "m", "l">>, <<>> }

\* C22: sqlTypeToGo is total, deterministic and case-insensitive: two
\* declared types that differ only in letter case or surrounding white space
\* map to the same target type (INT, int and Int4 all map to int32), and a
\* type matching no rule maps to interface{} and never to an error.
C22_CaseInsensitiveTotal ==
    Mapped =>
      /\ typeOut.base = sqlTypeToGo(column.base)
      /\ \E k \in DOMAIN GoType : typeOut.base = GoType[k]
      /\ column.base \in {<<"i", "n", "t">>, <<"i", "n", "t", "4">>} => typeOut.base = GoType.int32
      /\ column.base \in Unrecognized => typeOut.base = GoType.any

\* Int4 with white space around it was mapped.
C22_Witness ==
    /\ Mapped
    /\ column.DBType = <<"\n", " ", "I", "n", "t", "4", " ">>
    /\ typeOut.base = GoType.int32

\* The Go types that are slices or references already.
SliceTypes == {GoType.bytes}

\* C23: goTypeForColumn wraps the mapped type as a pointer exactly when the
\* column is nullable and the base type is not already a reference-like or
\* slice type (of the types sqlTypeToGo returns: []byte); a column that is
\* not nullable is never wrapped, whatever its type.
C23_PointerIffNullable ==
    Mapped =>
      LET wrapped == typeOut.goType = <<"*">> \o typeOut.base
      IN  /\ wrapped <=> (column.Nullable /\ typeOut.base \notin SliceTypes)
          /\ ~wrapped => typeOut.goType = typeOut.base

\* A nullable jsonb column was mapped to []byte.
C23_Witness ==
    /\ Mapped
    /\ column.Nullable
    /\ column.DBType = <<"j", "s", "o", "n", "b">>
    /\ typeOut.goType = GoType.bytes

\* C26: the integer-family prefix rules come before every containment rule,
\* first match wins: a normalized type beginning with smallint maps to
\* int16, one beginning with int or serial to int32, one beginning with
\* bigint or bigserial to int64, also when it contains char, text, uuid,
\* date or json.
C26_IntegerPrefixesFirst ==
    Mapped =>
      LET t == column.base
      IN  /\ HasPrefix(t, <<"s", "m", "a", "l", "l", "i", "n", "t">>) => typeOut.base = GoType.int16
          /\ HasPrefix(t, <<"i", "n", "t">>) \/ HasPrefix(t, <<"s", "e", "r", "i", "a", "l">>)
               => typeOut.base = GoType.int32
          /\ HasPrefix(t, <<"b", "i", "g", "i", "n", "t">>) \/ HasPrefix(t, <<"b", "i", "g", "s", "e", "r", "i", "a", "l">>)
               => typeOut.base = GoType.int64

(***************************************************************************)
(* Properties of the result of Run.                                        *)
(***************************************************************************)

\* The transaction of version v was committed by the Migrate call of this run.
AppliedInRun(v) == \E k \in 1..Len(trace["A"]) : trace["A"][k] = <<"commit", v>>

\* C24: the SchemaMigrations field of Run's result holds the applied
\* migrations: it contains a migration only if the body of that migration
\* was applied during this run, so it excludes the versions skipped as
\* already in the ledger and is empty when SkipMigrate is set.
C24_ResultHoldsApplied ==
    RunDone /\ runOut.err = NoRunError =>
      /\ \A i \in 1..Len(runOut.res.SchemaMigrations) :
           AppliedInRun(runOut.res.SchemaMigrations[i].Version)
      /\ opts.SkipMigrate => runOut.res.SchemaMigrations = <<>>

(***************************************************************************)
(* Properties of the transactions of SchemaMigrator.Migrate.               *)
(***************************************************************************)

Begun(ev) == ev[1] = "begin"

\* A Commit, also one that failed, or a Rollback: the decision that ends a
\* transaction.
Decided(ev) == ev[1] \in {"commit", "rollback"} \/ (ev[1] = "fail" /\ ev[2] = "commit")

\* The transactions that the first k statements of the call of p left open.
OpenAfter(p, k) ==
    Cardinality({ j \in 1..k : Begun(trace[p][j]) })
      - Cardinality({ j \in 1..k : Decided(trace[p][j]) })

\* C25: at every moment of a Migrate call at most one transaction is open,
\* and every transaction that is begun is ended by exactly one decision,
\* one Commit or one Rollback, before the next transaction is begun or
\* Migrate returns.
C25_OneTransactionOneDecision ==
    \A p \in Procs :
      /\ \A k \in 0..Len(trace[p]) : OpenAfter(p, k) \in {0, 1}
      /\ tx[p].open <=> OpenAfter(p, Len(trace[p])) = 1
      /\ pc[p] = "done" => ~tx[p].open

\* A call committed one transaction, rolled the next one back and returned.
C25_Witness ==
    /\ pc["A"] = "done"
    /\ Cardinality({ j \in 1..Len(trace["A"]) : Begun(trace["A"][j]) }) = 2
    /\ \E j \in 1..Len(trace["A"]) : trace["A"][j][1] = "commit"
    /\ trace["A"][Len(trace["A"])][1] = "rollback"

(***************************************************************************)
(* Properties of the line classifiers of Parser.ParseFile.                 *)
(***************************************************************************)

\* The lines taken by each classifier, the first that matches: name, then
\* param, then returns; the other lines that do not start with "--".
NameLines == SelectSeq(unit.file.lines, LAMBDA l : FindName(l).ok)

ParamLines == SelectSeq(unit.file.lines, LAMBDA l : ~FindName(l).ok /\ FindParam(l).ok)

ReturnsLines ==
    SelectSeq(unit.file.lines,
              LAMBDA l : ~FindName(l).ok /\ ~FindParam(l).ok /\ FindReturns(l).ok)

BodyLines ==
    SelectSeq(unit.file.lines,
              LAMBDA l : /\ ~FindName(l).ok /\ ~FindParam(l).ok /\ ~FindReturns(l).ok
                         /\ ~HasPrefix(TrimSpace(l), Dashes))

\* A line of the unit matches more than one header pattern.
SeveralMatch ==
    \E i \in 1..Len(unit.file.lines) :
      LET l == unit.file.lines[i]
      IN  Cardinality({ k \in 1..3 : <<FindName(l), FindParam(l), FindReturns(l)>>[k].ok }) > 1

\* C27: each line of a unit is consumed by at most one classifier, the first
\* that matches in the order name, param, returns: a line that matches
\* several header patterns updates only the first matching field, a line
\* consumed as a header is never appended to the body, and every line that
\* matches no header pattern and does not start with a comment marker is
\* appended to the body in file order.
C27_FirstClassifierWins ==
    ParseOk =>
      /\ NameLines # <<>>
      /\ parseOut.proc.Name = FindName(NameLines[Len(NameLines)]).m1
      /\ parseOut.proc.Kind = FindName(NameLines[Len(NameLines)]).m2
      /\ parseOut.proc.Params =
           [i \in 1..Len(ParamLines) |->
              Param(FindParam(ParamLines[i]).m1, normalizeType(FindParam(ParamLines[i]).m2))]
      /\ parseOut.proc.Returns =
           Concat([i \in 1..Len(ReturnsLines) |-> parseColumns(FindReturns(ReturnsLines[i]).m1)])
      /\ parseOut.proc.SQL = TrimSpace(Join(BodyLines, <<"\n">>))

\* A unit whose name header also holds a param header was parsed: the name
\* was read and no param stored.
C27_Witness ==
    /\ ParseOk
    /\ SeveralMatch
    /\ FindParam(NameLines[1]).ok
    /\ parseOut.proc.Params = <<>>
    /\ parseOut.proc.Name = <<"G">>

(***************************************************************************)
(* Properties of overlapping invocations of SchemaMigrator.Migrate.        *)
(***************************************************************************)

\* The call of p has issued the statement ev.
Issued(p, ev) == \E k \in 1..Len(trace[p]) : trace[p][k] = ev

\* The calls of p and q overlap: each started before the other returned
\* and both read version v as unapplied and executed its body.
BothExecuted(p, q, v) ==
    /\ p # q
    /\ v \notin applied[p] /\ v \notin applied[q]
    /\ Issued(p, <<"exec", v>>) /\ Issued(q, <<"exec", v>>)

\* C28: when two Migrate invocations run concurrently against one database,
\* both can read a version as unapplied and both can execute its body, but
\* at most one of the two transactions for that version commits: the ledger
\* never holds two rows for one version, no body is committed twice, and
\* the losing invocation returns an error.
C28_OneCommitPerVersion ==
    /\ \A r1, r2 \in ledger : r1.version = r2.version => r1 = r2
    /\ \A i, j \in 1..Len(bodyLog) : bodyLog[i] = bodyLog[j] => i = j
    /\ \A p, q \in Procs : \A v \in Versions :
         BothExecuted(p, q, v) /\ Issued(p, <<"commit", v>>) =>
           /\ ~Issued(q, <<"commit", v>>)
           /\ pc[q] = "done" => ret[q].kind = "error"

\* Both invocations executed the body of version 1 under different names;
\* A committed, B failed at its ledger insert and returned the error.
C28_Witness ==
    /\ BothExecuted("A", "B", 1)
    /\ migs["A"][1].Name # migs["B"][1].Name
    /\ Issued("A", <<"commit", 1>>)
    /\ Failed("B", "insert")
    /\ Cardinality(ledger) = 1
    /\ bodyLog = <<1>>

(***************************************************************************)
(* Properties of repeated runs of SchemaMigrator.Migrate.                  *)
(***************************************************************************)

\* C29: starting from an empty ledger and running Migrate any number of
\* times with one fixed version-sorted list, each run free to fail at any
\* statement, the versions recorded in the ledger are at every point a
\* prefix of the list: no version is recorded while a lower version of the
\* list is unrecorded.
C29_LedgerIsPrefix ==
    LET list == migs["A"]
    IN  /\ \E k \in 0..Len(list) :
             LedgerVersions(ledger) = { list[i].Version : i \in 1..k }
        /\ \A i, j \in 1..Len(list) :
             i < j /\ list[j].Version \in LedgerVersions(ledger)
               => list[i].Version \in LedgerVersions(ledger)

\* The first run failed, the second went on from where it stopped: two of
\* the three versions of the list are recorded.
C29_Witness ==
    /\ runs = 2
    /\ prevRun["A"].ret.kind = "error"
    /\ Len(migs["A"]) = 3
    /\ startLedger["A"] # {}
    /\ Cardinality(ledger) = 2
    /\ Cardinality(ledger) > Cardinality(startLedger["A"])

\* applyMigration was entered for version v in the call of p.
Started(p, v) == Issued(p, <<"begin", v>>) \/ Issued(p, <<"fail", "begin", v>>)

\* C30: Migrate decides per migration by the membership of its version in
\* the ledger alone: a migration whose version is lower than the highest
\* version in the ledger but is itself absent from the ledger is applied,
\* neither skipped nor rejected, so a migration added later with a lower
\* number still runs, after higher-numbered migrations took effect.
C30_MembershipAlone ==
    \A p \in Procs :
      /\ \A i \in 1..Len(migs[p]) :
           i < idx[p] => (Started(p, migs[p][i].Version) <=> migs[p][i].Version \notin applied[p])
      /\ pc[p] = "done" /\ ret[p].kind = "error" =>
           ret[p].step \in {"ensureTable", "appliedVersions", "begin", "exec", "insert", "commit"}
      /\ pc[p] = "done" /\ ret[p] = Nil => idx[p] > Len(migs[p]) \/ migs[p] = <<>>

\* Version 3 was in the ledger when the call started; the call applied
\* version 2 and returned nil.
C30_Witness ==
    /\ pc["A"] = "done"
    /\ ret["A"] = Nil
    /\ LedgerVersions(startLedger["A"]) = {3}
    /\ Issued("A", <<"commit", 2>>)
    /\ bodyLog = <<3, 2>>

====
